---- MODULE Spec2Model ----
(***************************************************************************)
(* A model of the generative-UI agent: the language detector, the response *)
(* template store, the three capability handlers, the handler registry and *)
(* the dispatch orchestrator call_model.                                   *)
(*                                                                         *)
(* Text is a sequence of chunks (strings); a chunk is one character where  *)
(* the code looks at characters and a literal piece of text elsewhere.     *)
(* Text whose script matters (language detection) is a sequence of Unicode *)
(* code points.  External calls (the chat model, the weather service, the  *)
(* UI side channel) are inputs: every outcome the code distinguishes is    *)
(* drawn nondeterministically.  A Python exception is the value            *)
(* [raised |-> TRUE, exc |-> ...] of the operator that models the call.    *)
(***************************************************************************)
EXTENDS Integers, Sequences, FiniteSets, TLC

VARIABLES
    \* language detector run on one text
    text, lang,
    \* one formatting of a response template
    template_call, template_out,
    \* one call of a capability handler's process_request, and the call
    \* made before it on the same handler with the same arguments, if any
    h_pc, h_handler, h_request, h_language, h_env, h_out, h_first,
    \* the calls the handler made on the completion service ("complete") and
    \* on the weather service ("get") during that call, in order
    h_calls,
    \* the handler registry (ComponentRegistry._handlers, ._instances), the
    \* number of handler instances constructed so far, and the calls made on
    \* the registry with what they returned
    handlers, instances, reg_made, reg_log,
    \* one invocation of call_model
    pc, messages, user_language, response, tc, tool_messages, returned, ui,
    uuid, executed, model_calls,
    \* the exception call_model caught last ("": none), and for every entry
    \* of tool_messages the number of the tool call it was appended for
    error, owner

langVars == <<text, lang, template_call, template_out>>
handlerVars == <<h_pc, h_handler, h_request, h_language, h_env, h_out,
                 h_first, h_calls>>
regVars == <<handlers, instances, reg_made, reg_log>>
orchVars == <<pc, messages, user_language, response, tc, tool_messages,
              returned, ui, uuid, executed, model_calls, error, owner>>
vars == <<langVars, handlerVars, regVars, orchVars>>

(***************************************************************************)
(* Bounds of the model.                                                    *)
(***************************************************************************)
MaxTextLen == 2
MaxCalls == 2
MaxTodoLines == 3
MaxVideoLines == 3
MaxInstances == 1
MaxRegOps == 4

(***************************************************************************)
(* Language detection (utils/language.py and its copy in graph.py).        *)
(***************************************************************************)
HiraganaLo == 12352
HiraganaHi == 12447
KatakanaLo == 12448
KatakanaHi == 12543
CJKLo == 19968
CJKHi == 40959

\* re.search(r'[lo1-hi1 lo2-hi2]', t): some character of t is in a range
re_search_ranges(ranges, t) ==
    \E i \in 1..Len(t) : \E r \in ranges : r[1] <= t[i] /\ t[i] <= r[2]

detect_language_zh_first(t) ==
    IF re_search_ranges({<<CJKLo, CJKHi>>}, t) THEN "zh"
    ELSE IF re_search_ranges({<<HiraganaLo, HiraganaHi>>,
                              <<KatakanaLo, KatakanaHi>>}, t) THEN "ja"
    ELSE "en"

detect_language(t) ==
    IF re_search_ranges({<<HiraganaLo, HiraganaHi>>,
                         <<KatakanaLo, KatakanaHi>>}, t) THEN "ja"
    ELSE IF re_search_ranges({<<CJKLo, CJKHi>>}, t) THEN "zh"
    ELSE "en"

graph_detect_language_no_katakana(t) ==
    IF re_search_ranges({<<HiraganaLo, HiraganaHi>>}, t) THEN "ja"
    ELSE IF re_search_ranges({<<CJKLo, CJKHi>>}, t) THEN "zh"
    ELSE "en"

graph_detect_language(t) ==
    IF re_search_ranges({<<HiraganaLo, HiraganaHi>>,
                         <<KatakanaLo, KatakanaHi>>}, t) THEN "ja"
    ELSE IF re_search_ranges({<<CJKLo, CJKHi>>}, t) THEN "zh"
    ELSE "en"

\* Code points the texts are built from: ASCII, Latin-1, and both edges of
\* the Hiragana, Katakana and CJK Unified Ideographs blocks, inside and out.
CodePoints ==
    {65, 233, 12351, 12352, 12447, 12448, 12543, 12544,
     19967, 19968, 40959, 40960}

SeqsUpTo(S, n) == UNION {[1..k -> S] : k \in 0..n}

Texts == SeqsUpTo(CodePoints, MaxTextLen)

NoLang == [utils |-> "none", graph |-> "none"]

(***************************************************************************)
(* Results of calls: a returned value or a raised exception.               *)
(***************************************************************************)
Ret(v) == [raised |-> FALSE, val |-> v, exc |-> <<>>]
Raise(e) == [raised |-> TRUE, val |-> <<>>, exc |-> e]

(***************************************************************************)
(* Text: sequences of chunks.                                              *)
(***************************************************************************)
RECURSIVE Concat(_)
Concat(ss) == IF ss = <<>> THEN <<>> ELSE Head(ss) \o Concat(Tail(ss))

Whitespace == {" ", "\n", "\t"}

RECURSIVE lstrip(_)
lstrip(s) ==
    IF s # <<>> /\ Head(s) \in Whitespace THEN lstrip(Tail(s)) ELSE s

RECURSIVE rstrip(_)
rstrip(s) ==
    IF s # <<>> /\ s[Len(s)] \in Whitespace
    THEN rstrip(SubSeq(s, 1, Len(s) - 1)) ELSE s

\* str.strip()
strip_left_only(s) == lstrip(s)

strip(s) == rstrip(lstrip(s))

\* the literal "San Francisco"
SanFrancisco == <<"San Francisco">>

(***************************************************************************)
(* Response templates (utils/language.py; graph.py holds a copy that       *)
(* differs in one character of the Japanese todo_success text).  A         *)
(* placeholder is the chunk "{name}"; the zh and ja literals are written   *)
(* as tagged ASCII chunks.                                                 *)
(***************************************************************************)
Placeholders ==
    {"{city}", "{temperature}", "{condition}", "{description}", "{title}",
     "{count}", "{removal_count}", "{addition_count}", "{total_count}"}

RESPONSE_TEMPLATES ==
    [weather |->
        [en |-> <<"Here's the current weather for ", "{city}", ": ",
                  "{temperature}", ", ", "{condition}", ". ", "{description}">>,
         zh |-> <<"zh:This is ", "{city}", "zh:'s current weather: ",
                  "{temperature}", "zh:, ", "{condition}", "zh:. ",
                  "{description}">>,
         ja |-> <<"{city}", "ja:'s current weather: ", "{temperature}",
                  "ja:, ", "{condition}", "ja:. ", "{description}">>],
     weather_fallback |->
        [en |-> <<"Here's the weather information for ", "{city}", ": ",
                  "{temperature}", ", ", "{condition}", ". ", "{description}">>,
         zh |-> <<"zh:This is ", "{city}", "zh:'s weather information: ",
                  "{temperature}", "zh:, ", "{condition}", "zh:. ",
                  "{description}">>,
         ja |-> <<"{city}", "ja:'s weather information: ", "{temperature}",
                  "ja:, ", "{condition}", "ja:. ", "{description}">>],
     todo_success |->
        [en |-> <<"I've created a task plan titled '", "{title}", "' with ",
                  "{count}",
                  " actionable steps to help you achieve your goal.">>,
         zh |-> <<"zh:I have created a task plan named '", "{title}",
                  "zh:', containing ", "{count}",
                  "zh: executable steps to help you reach your goal.">>,
         ja |-> <<"'", "{title}", "ja:' task plan created. It holds ",
                  "{count}", "ja:(zh counter) executable steps.">>],
     video_editing_success |->
        [en |-> <<"I've created a video editing plan titled '", "{title}",
                  "' with ", "{removal_count}", " removal tasks and ",
                  "{addition_count}", " addition tasks (", "{total_count}",
                  " total tasks) to help you complete your video editing project.">>,
         zh |-> <<"zh:I have created a video editing plan named '", "{title}",
                  "zh:', containing ", "{removal_count}",
                  "zh: removal tasks and ", "{addition_count}",
                  "zh: addition tasks (", "{total_count}",
                  "zh: tasks in total).">>,
         ja |-> <<"'", "{title}", "ja:' video editing plan created. ",
                  "{removal_count}", "ja: removal tasks and ",
                  "{addition_count}", "ja: addition tasks (total ",
                  "{total_count}", "ja: tasks).">>],
     video_editing_fallback |->
        [en |-> <<"I've created a general video editing plan with removal and addition tasks to help you with your video editing project.">>,
         zh |-> <<"zh:I have created a general video editing plan.">>,
         ja |-> <<"ja:A general video editing plan was created.">>]]

graph_RESPONSE_TEMPLATES ==
    [RESPONSE_TEMPLATES EXCEPT
        !["todo_success"]["ja"] =
            <<"'", "{title}", "ja:' task plan created. It holds ",
              "{count}", "ja:(ja counter) executable steps.">>]

\* dict.get(key, default) on a dictionary modelled as a function
dict_get(d, k, default) == IF k \in DOMAIN d THEN d[k] ELSE default

EmptyDict == [k \in {} |-> <<>>]

get_response_template_no_default(template_key, language) ==
    dict_get(dict_get(RESPONSE_TEMPLATES, template_key, EmptyDict),
             language, <<>>)

get_response_template(template_key, language) ==
    dict_get(dict_get(RESPONSE_TEMPLATES, template_key, EmptyDict),
             language,
             dict_get(dict_get(RESPONSE_TEMPLATES, template_key, EmptyDict),
                      "en", <<>>))

\* str.format(**kwargs): every placeholder replaced by its argument; a
\* placeholder without an argument raises KeyError
RECURSIVE substitute(_, _)
substitute(template, kwargs) ==
    IF template = <<>> THEN <<>>
    ELSE (IF Head(template) \in Placeholders
          THEN kwargs[Head(template)]
          ELSE <<Head(template)>>) \o substitute(Tail(template), kwargs)

str_format(template, kwargs) ==
    IF \E i \in 1..Len(template) :
            template[i] \in Placeholders /\ template[i] \notin DOMAIN kwargs
    THEN Raise("KeyError")
    ELSE Ret(substitute(template, kwargs))

format_response(template_key, language, kwargs) ==
    str_format(get_response_template(template_key, language), kwargs)

\* str(n) of a count
int_str(n) == <<ToString(n)>>

(***************************************************************************)
(* JSON values as the weather service and json.loads return them.          *)
(***************************************************************************)
JDict(f) == [t |-> "dict", v |-> f]
JStr(s) == [t |-> "str", v |-> s]
JNum(s) == [t |-> "num", v |-> s]
JList(l) == [t |-> "list", v |-> l]
JNull == [t |-> "null", v |-> <<>>]

\* str(x) of a value put into an f-string
py_str(x) ==
    CASE x.t = "str" -> x.v
      [] x.t = "num" -> x.v
      [] x.t = "null" -> <<"None">>
      [] OTHER -> <<"<repr>">>

\* str.lower() on the letters the condition texts use
lower_char(c) ==
    CASE c = "R" -> "r" [] c = "D" -> "d" [] c = "C" -> "c" [] c = "S" -> "s"
      [] c = "P" -> "p" [] c = "L" -> "l" [] c = "M" -> "m" [] c = "T" -> "t"
      [] c = "A" -> "a" [] c = "N" -> "n" [] c = "U" -> "u" [] c = "O" -> "o"
      [] c = "W" -> "w" [] c = "I" -> "i" [] c = "E" -> "e"
      [] OTHER -> c

lower(s) == [i \in 1..Len(s) |-> lower_char(s[i])]

\* sub in s
contains(s, sub) ==
    \E i \in 1..(Len(s) - Len(sub) + 1) : SubSeq(s, i, i + Len(sub) - 1) = sub

KwRain == <<"r", "a", "i", "n">>
KwDrizzle == <<"d", "r", "i", "z", "z", "l", "e">>
KwCloud == <<"c", "l", "o", "u", "d">>
KwSun == <<"s", "u", "n">>
KwClear == <<"c", "l", "e", "a", "r">>
KwSnow == <<"s", "n", "o", "w">>

\* the category of a lower-cased condition text, first match first
condition_category_cloud_first(condition_lower) ==
    IF contains(condition_lower, KwCloud) THEN "cloud"
    ELSE IF contains(condition_lower, KwRain)
            \/ contains(condition_lower, KwDrizzle) THEN "rain"
    ELSE IF contains(condition_lower, KwSun)
            \/ contains(condition_lower, KwClear) THEN "clear"
    ELSE IF contains(condition_lower, KwSnow) THEN "snow"
    ELSE "default"

condition_category(condition_lower) ==
    IF contains(condition_lower, KwRain)
       \/ contains(condition_lower, KwDrizzle) THEN "rain"
    ELSE IF contains(condition_lower, KwCloud) THEN "cloud"
    ELSE IF contains(condition_lower, KwSun)
            \/ contains(condition_lower, KwClear) THEN "clear"
    ELSE IF contains(condition_lower, KwSnow) THEN "snow"
    ELSE "default"

\* graph.py writes the icons and the degree sign as UTF-8 text
graph_icons ==
    [rain |-> <<"icon:cloud-with-rain">>, cloud |-> <<"icon:sun-behind-cloud">>,
     clear |-> <<"icon:sun">>, snow |-> <<"icon:snowflake">>,
     default |-> <<"icon:sun-behind-small-cloud">>]

\* handlers/weather.py holds the same literals encoded twice (mojibake)
handler_icons ==
    [rain |-> <<"mojibake:icon:cloud-with-rain">>,
     cloud |-> <<"mojibake:icon:sun-behind-cloud">>,
     clear |-> <<"mojibake:icon:sun">>,
     snow |-> <<"mojibake:icon:snowflake">>,
     default |-> <<"mojibake:icon:sun-behind-small-cloud">>]

gradients ==
    [rain |-> <<"linear-gradient(135deg, #636e72 0%, #2d3436 100%)">>,
     cloud |-> <<"linear-gradient(135deg, #74b9ff 0%, #0984e3 100%)">>,
     clear |-> <<"linear-gradient(135deg, #fdcb6e 0%, #e17055 100%)">>,
     snow |-> <<"linear-gradient(135deg, #ddd6fe 0%, #a78bfa 100%)">>,
     default |-> <<"linear-gradient(135deg, #fd79a8 0%, #fdcb6e 100%)">>]

graph_descriptions ==
    [rain |-> <<"Rainy weather today">>, cloud |-> <<"Partly cloudy skies">>,
     clear |-> <<"Clear and sunny">>, snow |-> <<"Snowy conditions">>,
     default |-> <<"Pleasant weather">>]

weather_descriptions ==
    [rain |-> [en |-> <<"Rainy weather today">>,
               zh |-> <<"mojibake:zh:rain today">>,
               ja |-> <<"mojibake:ja:rain today">>],
     cloud |-> [en |-> <<"Partly cloudy skies">>,
                zh |-> <<"mojibake:zh:partly cloudy">>,
                ja |-> <<"mojibake:ja:partly cloudy">>],
     clear |-> [en |-> <<"Clear and sunny">>,
                zh |-> <<"mojibake:zh:clear weather">>,
                ja |-> <<"mojibake:ja:clear and fine">>],
     snow |-> [en |-> <<"Snowy conditions">>,
               zh |-> <<"mojibake:zh:snowy weather">>,
               ja |-> <<"mojibake:ja:snowy weather">>],
     default |-> [en |-> <<"Pleasant weather">>,
                  zh |-> <<"mojibake:zh:pleasant weather">>,
                  ja |-> <<"mojibake:ja:pleasant weather">>]]

WeatherOutput(city, temperature, condition, humidity, windSpeed, icon, gradient, description) ==
    [city |-> city, temperature |-> temperature, condition |-> condition,
     humidity |-> humidity, windSpeed |-> windSpeed, icon |-> icon,
     gradient |-> gradient, description |-> description]

\* graph.py format_weather_data: .get on a value that is no dict and .lower
\* on a value that is no string raise AttributeError
format_weather_data(weather_response, city) ==
    IF weather_response.t # "dict" THEN Raise("AttributeError")
    ELSE LET current == dict_get(weather_response.v, "current", JDict(EmptyDict))
         IN IF current.t # "dict" THEN Raise("AttributeError")
            ELSE LET condition == dict_get(current.v, "condition", JDict(EmptyDict))
                     temp_f == dict_get(current.v, "temp_f", JNum(<<"70">>))
                     hum == dict_get(current.v, "humidity", JNum(<<"50">>))
                     wind_mph == dict_get(current.v, "wind_mph", JNum(<<"5">>))
                 IN IF condition.t # "dict" THEN Raise("AttributeError")
                    ELSE LET condition_text ==
                                 dict_get(condition.v, "text",
                                          JStr(<<"C", "l", "e", "a", "r">>))
                         IN IF condition_text.t # "str"
                            THEN Raise("AttributeError")
                            ELSE LET cat == condition_category(lower(condition_text.v))
                                 IN Ret(WeatherOutput(
                                        city,
                                        py_str(temp_f) \o <<"<deg>F">>,
                                        condition_text.v,
                                        py_str(hum) \o <<"%">>,
                                        py_str(wind_mph) \o <<" mph">>,
                                        graph_icons[cat], gradients[cat],
                                        graph_descriptions[cat]))

\* WeatherHandler._format_weather_data: the same, with the description
\* localised (en when the language has none) and the mojibake literals
WeatherHandler_format_weather_data(weather_response, city, language) ==
    IF weather_response.t # "dict" THEN Raise("AttributeError")
    ELSE LET current == dict_get(weather_response.v, "current", JDict(EmptyDict))
         IN IF current.t # "dict" THEN Raise("AttributeError")
            ELSE LET condition == dict_get(current.v, "condition", JDict(EmptyDict))
                     temp_f == dict_get(current.v, "temp_f", JNum(<<"70">>))
                     hum == dict_get(current.v, "humidity", JNum(<<"50">>))
                     wind_mph == dict_get(current.v, "wind_mph", JNum(<<"5">>))
                 IN IF condition.t # "dict" THEN Raise("AttributeError")
                    ELSE LET condition_text ==
                                 dict_get(condition.v, "text",
                                          JStr(<<"C", "l", "e", "a", "r">>))
                         IN IF condition_text.t # "str"
                            THEN Raise("AttributeError")
                            ELSE LET cat == condition_category(lower(condition_text.v))
                                 IN Ret(WeatherOutput(
                                        city,
                                        py_str(temp_f) \o <<"<A-circumflex><deg>F">>,
                                        condition_text.v,
                                        py_str(hum) \o <<"%">>,
                                        py_str(wind_mph) \o <<" mph">>,
                                        handler_icons[cat], gradients[cat],
                                        dict_get(weather_descriptions[cat], language,
                                                 weather_descriptions[cat]["en"])))

(***************************************************************************)
(* The weather service.  wenv is the outcome of this call's environment:   *)
(* whether WEATHER_API_KEY is set, what the GET does (ok, transport error, *)
(* non-2xx status, a body that is no JSON) and the document returned.      *)
(***************************************************************************)
\* WeatherHandler._fetch_weather_data
WeatherHandler_fetch_weather_data(city, wenv) ==
    IF ~wenv.api_key THEN Raise("ValueError")
    ELSE IF wenv.http = "ok" THEN Ret(wenv.doc)
    ELSE Raise(wenv.http)

\* graph.py fetch_weather_data: the same steps
fetch_weather_data(city, wenv) ==
    IF ~wenv.api_key THEN Raise("ValueError")
    ELSE IF wenv.http = "ok" THEN Ret(wenv.doc)
    ELSE Raise(wenv.http)

(***************************************************************************)
(* The chat model's completion as a capability reads it: the call raises,  *)
(* or response.content is no string, or it is a text.                      *)
(***************************************************************************)
CompletionRaises == [kind |-> "raise", content |-> <<>>]
CompletionNonString == [kind |-> "nonstr", content |-> <<>>]
CompletionText(s) == [kind |-> "str", content |-> s]

Max(S) == CHOOSE x \in S : \A y \in S : y <= x
Min(S) == CHOOSE x \in S : \A y \in S : x <= y

\* str.split("\n")
RECURSIVE split_lines(_)
split_lines(s) ==
    IF \A i \in 1..Len(s) : s[i] # "\n" THEN <<s>>
    ELSE LET k == Min({i \in 1..Len(s) : s[i] = "\n"})
         IN <<SubSeq(s, 1, k - 1)>> \o split_lines(SubSeq(s, k + 1, Len(s)))

\* the length of the whitespace run of s that starts at position p
ws_run(s, p) ==
    IF \A i \in p..Len(s) : s[i] \in Whitespace THEN Len(s) - p + 1
    ELSE Min({i \in p..Len(s) : s[i] \notin Whitespace}) - p

\* the last position of the line of s that position p is in
line_end(s, p) ==
    IF \A i \in p..Len(s) : s[i] # "\n" THEN Len(s)
    ELSE Min({i \in p..Len(s) : s[i] = "\n"}) - 1

\* r"Title:\s*(.+)" tried at an occurrence of "Title:" at position q: the
\* greedy \s* gives back whitespace until .+ finds a character that is no
\* line break
title_match_at(s, q) ==
    LET p == q + 1
        n == ws_run(s, p)
        cands == {k \in 0..n : p + k <= Len(s) /\ s[p + k] # "\n"}
    IN IF s[q] # "Title:" \/ cands = {} THEN [found |-> FALSE, group |-> <<>>]
       ELSE [found |-> TRUE,
             group |-> SubSeq(s, p + Max(cands), line_end(s, p + Max(cands)))]

\* re.search(r"Title:\s*(.+)", s): the leftmost match
re_search_title(s) ==
    LET hits == {q \in 1..Len(s) : title_match_at(s, q).found}
    IN IF hits = {} THEN [found |-> FALSE, group |-> <<>>]
       ELSE title_match_at(s, Min(hits))

\* re.match(r"^\s*[-*]\s+(.+)$", line) on a line without line breaks
re_match_task(line) ==
    LET m == ws_run(line, 1)
        b == m + 1
        n == IF b <= Len(line) THEN ws_run(line, b + 1) ELSE 0
        rest == SubSeq(line, b + 1 + n, Len(line))
    IN IF b > Len(line) \/ line[b] \notin {"-", "*"} \/ n = 0
       THEN [found |-> FALSE, group |-> <<>>]
       ELSE IF rest # <<>> THEN [found |-> TRUE, group |-> rest]
       ELSE IF n >= 2 THEN [found |-> TRUE, group |-> <<line[Len(line)]>>]
       ELSE [found |-> FALSE, group |-> <<>>]

RECURSIVE parse_tasks(_)
parse_tasks(lines) ==
    IF lines = <<>> THEN <<>>
    ELSE (IF re_match_task(Head(lines)).found
          THEN <<strip(re_match_task(Head(lines)).group)>> ELSE <<>>)
         \o parse_tasks(Tail(lines))

GenericTasks ==
    << <<"Analyze requirements">>, <<"Create action plan">>,
       <<"Execute key steps">>, <<"Review progress">> >>

TodoOutput(title, tasks) == [title |-> title, tasks |-> tasks]

\* the parse of a completion into title and tasks (todo.py 102-126, and the
\* same lines of graph.py get_todo_data 327-346)
parse_task_plan_no_generic(ai_response) ==
    LET isstr == ai_response.kind = "str"
        title_match == re_search_title(ai_response.content)
    IN TodoOutput(IF isstr /\ title_match.found THEN strip(title_match.group)
                  ELSE <<"Task Plan">>,
                  IF isstr THEN parse_tasks(split_lines(ai_response.content))
                  ELSE <<>>)

parse_task_plan(ai_response) ==
    LET isstr == ai_response.kind = "str"
        title_match == re_search_title(ai_response.content)
        title == IF isstr /\ title_match.found THEN strip(title_match.group)
                 ELSE <<"Task Plan">>
        tasks == IF isstr THEN parse_tasks(split_lines(ai_response.content))
                 ELSE <<>>
    IN TodoOutput(title, IF tasks = <<>> THEN GenericTasks ELSE tasks)

FallbackTodo ==
    TodoOutput(<<"General Plan">>,
               << <<"Analyze the request">>, <<"Plan your approach">>,
                  <<"Take action">>, <<"Review results">> >>)

\* utils/response.py
create_ui_component(component_type, data) ==
    [type |-> component_type, data |-> data]

create_component_response(result_text, ui_components) ==
    [result |-> result_text, ui_components |-> ui_components]

(***************************************************************************)
(* Video-editing completions.  A text that is one valid JSON document is   *)
(* the chunk naming it: JsonDocs gives the value json.loads returns for it *)
(* and the text it is written as (what the line parser reads).  Documents  *)
(* carry a string title or none, and task lists that are a list, a number  *)
(* or null.                                                                *)
(***************************************************************************)
JTask(title, details, tags) ==
    JDict([title |-> JStr(title), details |-> JStr(details),
           tags |-> JList(tags)])

JsonDocs ==
    [doc_objects |->
        [value |-> JDict([title |-> JStr(<<"Trip">>),
                          subtractionTasks |->
                              JList(<<JTask(<<"cut intro">>, <<"why">>, <<JStr(<<"audio">>)>>),
                                      JTask(<<"cut outro">>, <<"why">>, <<>>)>>),
                          additionTasks |->
                              JList(<<JTask(<<"add music">>, <<"how">>, <<JStr(<<"audio">>)>>),
                                      JDict([title |-> JStr(<<"add titles">>)])>>)]),
         text |-> <<"{", "\"", "title", "\"", ":", " ", "\"", "Trip", "\"", ",", "...", "}">>],
     doc_strings |->
        [value |-> JDict([title |-> JStr(<<"Trip">>),
                          subtractionTasks |-> JList(<<JStr(<<"Cut intro">>), JStr(<<>>), JNum(<<"3">>)>>),
                          additionTasks |-> JList(<<JStr(<<"Add music">>)>>)]),
         text |-> <<"{", "\"", "title", "\"", ":", " ", "\"", "Trip", "\"", ",", "...", "}">>],
     doc_five |->
        [value |-> JDict([subtractionTasks |->
                              JList(<<JStr(<<"a">>), JStr(<<"b">>), JStr(<<"c">>),
                                      JStr(<<"d">>), JStr(<<"e">>)>>),
                          additionTasks |-> JList(<<JStr(<<"f">>)>>)]),
         text |-> <<"{", "\"", "subtractionTasks", "\"", ":", " ", "[", "...", "}">>],
     doc_empty_lists |->
        [value |-> JDict([title |-> JStr(<<"Trip">>),
                          subtractionTasks |-> JList(<<>>),
                          additionTasks |-> JList(<<>>)]),
         text |-> <<"{", "\"", "title", "\"", ":", " ", "\"", "Trip", "\"", ",", "...", "}">>],
     doc_null_additions |->
        [value |-> JDict([title |-> JStr(<<"Trip">>),
                          subtractionTasks |-> JList(<<JStr(<<"Cut intro">>)>>),
                          additionTasks |-> JNull]),
         text |-> <<"{", "\n",
                    "\"", "subtractionTasks", "\"", ":", " ", "[", "\n",
                    "\"", "Cut intro", "\"", "\n",
                    "]", ",", "\n",
                    "\"", "additionTasks", "\"", ":", " ", "null", "\n", "}">>],
     doc_number_subtractions |->
        [value |-> JDict([subtractionTasks |-> JNum(<<"5">>)]),
         text |-> <<"{", "\"", "subtractionTasks", "\"", ":", " ", "5", "}">>],
     doc_list |->
        [value |-> JList(<<JStr(<<"Cut intro">>)>>),
         text |-> <<"[", "\"", "Cut intro", "\"", "]">>]]

RECURSIVE expand_docs(_)
expand_docs(s) ==
    IF s = <<>> THEN <<>>
    ELSE (IF Head(s) \in DOMAIN JsonDocs THEN JsonDocs[Head(s)].text
          ELSE <<Head(s)>>) \o expand_docs(Tail(s))

\* json.loads of a stripped text
json_loads(s) ==
    IF Len(s) = 1 /\ s[1] \in DOMAIN JsonDocs THEN Ret(JsonDocs[s[1]].value)
    ELSE Raise("JSONDecodeError")

\* the removal of the Markdown fence around the completion; the chunk
\* "<fence>" is the three backquotes
strip_code_fence_json_only(ai_response) ==
    LET c0 == strip(ai_response)
        c1 == IF c0 # <<>> /\ Head(c0) = "<fence>json" THEN Tail(c0) ELSE c0
    IN strip(c1)

strip_code_fence(ai_response) ==
    LET c0 == strip(ai_response)
        c1 == IF c0 # <<>> /\ Head(c0) = "<fence>json" THEN Tail(c0) ELSE c0
        c2 == IF c1 # <<>> /\ Head(c1) = "<fence>" THEN Tail(c1) ELSE c1
        c3 == IF c2 # <<>> /\ c2[Len(c2)] = "<fence>"
              THEN SubSeq(c2, 1, Len(c2) - 1) ELSE c2
    IN strip(c3)

\* the text of a JSON value used as a title, a task or a tag
val_text(x) == IF x.t = "str" THEN x.v ELSE py_str(x)

\* bool(x) of a JSON value
truthy(x) ==
    CASE x.t = "null" -> FALSE
      [] x.t = "str" -> x.v # <<>>
      [] x.t = "list" -> x.v # <<>>
      [] x.t = "num" -> x.v # <<"0">>
      [] OTHER -> TRUE

\* for task in raw: a list gives its items and a string its characters; a
\* number or null raises TypeError.  (No document of the model puts an
\* object there.)
py_iter(raw) ==
    IF raw.t = "list" THEN Ret(raw.v)
    ELSE IF raw.t = "str" THEN Ret([i \in 1..Len(raw.v) |-> JStr(<<raw.v[i]>>)])
    ELSE Raise("TypeError")

tag_texts(tags) ==
    IF tags.t = "list" THEN [i \in 1..Len(tags.v) |-> val_text(tags.v[i])]
    ELSE IF truthy(tags) THEN <<val_text(tags)>> ELSE <<>>

\* VideoEditingHandler: one entry of the model's list as {title, details, tags}
RECURSIVE normalize_tasks(_, _, _)
normalize_tasks(items, prefix, tag) ==
    IF items = <<>> THEN <<>>
    ELSE LET task == Head(items)
         IN (IF task.t = "dict"
             THEN <<[title |-> val_text(dict_get(task.v, "title", JStr(<<>>))),
                     details |-> val_text(dict_get(task.v, "details", JStr(<<>>))),
                     tags |-> tag_texts(dict_get(task.v, "tags", JList(<<>>)))]>>
             ELSE IF task.t = "str"
             THEN <<[title |-> task.v,
                     details |-> <<prefix>> \o lower(task.v),
                     tags |-> <<tag>>]>>
             ELSE <<>>)
            \o normalize_tasks(Tail(items), prefix, tag)

\* keywords a chunk holds once lower-cased
chunk_words(c) ==
    CASE c \in {"title", "Title"} -> {"title"}
      [] c \in {"subtraction", "Subtraction", "SUBTRACTION"} -> {"subtraction"}
      [] c \in {"addition", "Addition", "ADDITION"} -> {"addition"}
      [] c \in {"task", "Tasks", "tasks"} -> {"task"}
      [] c = "subtractionTasks" -> {"subtraction", "task"}
      [] c = "additionTasks" -> {"addition", "task"}
      [] OTHER -> {}

\* kw in line.lower()
kw_in(line, kw) == \E i \in 1..Len(line) : kw \in chunk_words(line[i])

chunk_in(line, c) == \E i \in 1..Len(line) : line[i] = c

RECURSIVE lstrip_chars(_, _)
lstrip_chars(s, chars) ==
    IF s # <<>> /\ Head(s) \in chars THEN lstrip_chars(Tail(s), chars) ELSE s

RECURSIVE rstrip_chars(_, _)
rstrip_chars(s, chars) ==
    IF s # <<>> /\ s[Len(s)] \in chars
    THEN rstrip_chars(SubSeq(s, 1, Len(s) - 1), chars) ELSE s

strip_chars(s, chars) == rstrip_chars(lstrip_chars(s, chars), chars)

\* line.split(":", 1)[1]
after_colon(line) ==
    SubSeq(line, Min({i \in 1..Len(line) : line[i] = ":"}) + 1, Len(line))

\* the entry the line parser appends: the handler makes {title, details},
\* graph.py keeps the text
heuristic_task(variant, prefix, task_text) ==
    IF variant = "handler"
    THEN [title |-> task_text, details |-> <<prefix>> \o lower(task_text),
          tags |-> <<>>]
    ELSE task_text

\* one line of the line-oriented parser; st = [title, section, sub, add]
heuristic_line(st, raw_line, variant) ==
    LET line == strip(raw_line)
    IN IF kw_in(line, "title") /\ chunk_in(line, ":")
       THEN LET title_part ==
                    strip_chars(strip_chars(strip(after_colon(line)), {"\""}), {"'"})
            IN IF title_part # <<>> THEN [st EXCEPT !.title = title_part] ELSE st
       ELSE IF kw_in(line, "subtraction") /\ (kw_in(line, "task") \/ chunk_in(line, "["))
       THEN [st EXCEPT !.section = "subtraction"]
       ELSE IF kw_in(line, "addition") /\ (kw_in(line, "task") \/ chunk_in(line, "["))
       THEN [st EXCEPT !.section = "addition"]
       ELSE IF line # <<>>
               /\ (Head(line) \in {"-", "*"}
                   \/ (Head(line) = "\"" /\ line[Len(line)] = "\""))
       THEN LET task_text ==
                    rstrip_chars(
                        strip_chars(
                            strip_chars(strip(lstrip_chars(line, {"-", "*"})), {"\""}),
                            {"'"}),
                        {","})
            IN IF task_text # <<>> /\ st.section = "subtraction"
               THEN [st EXCEPT !.sub = Append(@, heuristic_task(variant, "Remove or reduce: ",
                                                                 task_text))]
               ELSE IF task_text # <<>> /\ st.section = "addition"
               THEN [st EXCEPT !.add = Append(@, heuristic_task(variant, "Add or enhance: ",
                                                                 task_text))]
               ELSE st
       ELSE st

RECURSIVE heuristic_parse(_, _, _)
heuristic_parse(st, lines, variant) ==
    IF lines = <<>> THEN st
    ELSE heuristic_parse(heuristic_line(st, Head(lines), variant),
                         Tail(lines), variant)

(***************************************************************************)
(* WeatherHandler (handlers/weather.py).  env = [c1, c2, api_key, http,    *)
(* doc]: the completions of the first and of the second city extraction    *)
(* and the weather service's outcome.                                      *)
(***************************************************************************)
WeatherHandler_extract_city_with_openai(completion) ==
    IF completion.kind = "raise" THEN SanFrancisco
    ELSE IF completion.kind = "str" THEN strip(completion.content)
    ELSE SanFrancisco

fallback_descriptions ==
    [en |-> <<"Weather data unavailable, showing sample data">>,
     zh |-> <<"mojibake:zh:weather data unavailable, showing sample data">>,
     ja |-> <<"mojibake:ja:weather data unavailable, showing sample data">>]

\* a fallback whose city depends on how the weather service failed
WeatherHandler_create_fallback_weather_response_by_failure(request, language, env) ==
    LET fallback_weather ==
            WeatherOutput(IF env.api_key THEN SanFrancisco ELSE <<>>,
                          <<"72", "<A-circumflex><deg>F">>,
                          <<"Partly Cloudy">>, <<"65", "%">>, <<"8", " mph">>,
                          <<"mojibake:icon:sun-behind-cloud">>,
                          <<"linear-gradient(135deg, #74b9ff 0%, #0984e3 100%)">>,
                          fallback_descriptions["en"])
    IN Ret(create_component_response(
               <<"Weather data unavailable">>,
               <<create_ui_component("weather", fallback_weather)>>))

WeatherHandler_create_fallback_weather_response(request, language, env) ==
    LET city == WeatherHandler_extract_city_with_openai(env.c2)
        fallback_weather ==
            WeatherOutput(city, <<"72", "<A-circumflex><deg>F">>,
                          <<"Partly Cloudy">>, <<"65", "%">>, <<"8", " mph">>,
                          <<"mojibake:icon:sun-behind-cloud">>,
                          <<"linear-gradient(135deg, #74b9ff 0%, #0984e3 100%)">>,
                          dict_get(fallback_descriptions, language,
                                   fallback_descriptions["en"]))
        result_text ==
            format_response("weather_fallback", language,
                [c \in {"{city}", "{temperature}", "{condition}", "{description}"} |->
                    CASE c = "{city}" -> fallback_weather.city
                      [] c = "{temperature}" -> fallback_weather.temperature
                      [] c = "{condition}" -> fallback_weather.condition
                      [] OTHER -> fallback_weather.description])
    IN IF result_text.raised THEN result_text
       ELSE Ret(create_component_response(
                    result_text.val,
                    <<create_ui_component("weather", fallback_weather)>>))

\* process_request without its except clause: the exception propagates
WeatherHandler_process_request_no_catch(request, language, env) ==
    LET city == WeatherHandler_extract_city_with_openai(env.c1)
        weather_response == WeatherHandler_fetch_weather_data(city, env)
        weather_data ==
            IF weather_response.raised THEN weather_response
            ELSE WeatherHandler_format_weather_data(weather_response.val, city, language)
        result_text ==
            IF weather_data.raised THEN weather_data
            ELSE format_response("weather", language,
                    [c \in {"{city}", "{temperature}", "{condition}", "{description}"} |->
                        CASE c = "{city}" -> weather_data.val.city
                          [] c = "{temperature}" -> weather_data.val.temperature
                          [] c = "{condition}" -> weather_data.val.condition
                          [] OTHER -> weather_data.val.description])
    IN IF ~result_text.raised
       THEN Ret(create_component_response(
                    result_text.val,
                    <<create_ui_component("weather", weather_data.val)>>))
       ELSE result_text

WeatherHandler_process_request(request, language, env) ==
    LET city == WeatherHandler_extract_city_with_openai(env.c1)
        weather_response == WeatherHandler_fetch_weather_data(city, env)
        weather_data ==
            IF weather_response.raised THEN weather_response
            ELSE WeatherHandler_format_weather_data(weather_response.val, city, language)
        result_text ==
            IF weather_data.raised THEN weather_data
            ELSE format_response("weather", language,
                    [c \in {"{city}", "{temperature}", "{condition}", "{description}"} |->
                        CASE c = "{city}" -> weather_data.val.city
                          [] c = "{temperature}" -> weather_data.val.temperature
                          [] c = "{condition}" -> weather_data.val.condition
                          [] OTHER -> weather_data.val.description])
    IN IF ~result_text.raised
       THEN Ret(create_component_response(
                    result_text.val,
                    <<create_ui_component("weather", weather_data.val)>>))
       ELSE WeatherHandler_create_fallback_weather_response(request, language, env)

\* a fetch that repeats the GET after a failure
WeatherHandler_fetch_weather_data_calls_retry(env) ==
    IF ~env.api_key THEN <<>>
    ELSE IF env.http = "ok" THEN <<"get">> ELSE <<"get", "get">>

\* weather.py 96-107: no GET without the credential, else one client.get
WeatherHandler_fetch_weather_data_calls(env) ==
    IF ~env.api_key THEN <<>> ELSE <<"get">>

\* weather.py 72-93: one llm.ainvoke, whatever it does
WeatherHandler_extract_city_with_openai_calls(completion) == <<"complete">>

\* weather.py 189-194: the fallback extracts the city once more
WeatherHandler_create_fallback_weather_response_calls(request, language, env) ==
    WeatherHandler_extract_city_with_openai_calls(env.c2)

\* weather.py 45-68: the service calls of process_request, in order
WeatherHandler_process_request_calls(request, language, env) ==
    WeatherHandler_extract_city_with_openai_calls(env.c1)
    \o WeatherHandler_fetch_weather_data_calls(env)
    \o (IF WeatherHandler_process_request_no_catch(request, language, env).raised
        THEN WeatherHandler_create_fallback_weather_response_calls(request, language, env)
        ELSE <<>>)

(***************************************************************************)
(* TodoHandler (handlers/todo.py).  env = [c1]: the completion.            *)
(***************************************************************************)
TodoHandler_generate_task_plan(request, completion) ==
    IF completion.kind = "raise" THEN Raise("ServiceError")
    ELSE Ret(parse_task_plan(completion))

\* a fallback that forgets its text and its component
TodoHandler_create_fallback_todo_response_empty(language) ==
    Ret(create_component_response(<<>>, <<>>))

TodoHandler_create_fallback_todo_response(language) ==
    Ret(create_component_response(
            <<"I've created a general task plan with ">>
                \o int_str(Len(FallbackTodo.tasks))
                \o <<" steps to help you get started.">>,
            <<create_ui_component("todo", FallbackTodo)>>))

TodoHandler_process_request(request, language, env) ==
    LET todo_data == TodoHandler_generate_task_plan(request, env.c1)
        result_text ==
            IF todo_data.raised THEN todo_data
            ELSE format_response("todo_success", language,
                    [c \in {"{title}", "{count}"} |->
                        IF c = "{title}" THEN todo_data.val.title
                        ELSE int_str(Len(todo_data.val.tasks))])
    IN IF ~result_text.raised
       THEN Ret(create_component_response(
                    result_text.val,
                    <<create_ui_component("todo", todo_data.val)>>))
       ELSE TodoHandler_create_fallback_todo_response(language)

\* todo.py 40-99: _generate_task_plan holds the only llm.ainvoke, and the
\* fallback makes no call
TodoHandler_process_request_calls(request, language, env) == <<"complete">>

(***************************************************************************)
(* VideoEditingHandler (handlers/video_editing.py).  env = [c1].           *)
(***************************************************************************)
VTask(title, details, tags) == [title |-> title, details |-> details, tags |-> tags]

ChineseSubtraction ==
    <<VTask(<<"zh:remove unwanted footage">>, <<"zh:cut poor shots">>, <<"zh:editing", "zh:quality">>),
      VTask(<<"zh:delete redundant scenes">>, <<"zh:remove repeated segments">>, <<"zh:editing", "zh:timing">>),
      VTask(<<"zh:clear background noise">>, <<"zh:clean the audio">>, <<"zh:audio", "zh:quality">>)>>

EnglishSubtraction ==
    <<VTask(<<"Remove unwanted footage">>, <<"Cut out unnecessary or poor quality clips">>, <<"editing", "quality">>),
      VTask(<<"Cut unnecessary scenes">>, <<"Remove redundant or overly long segments">>, <<"editing", "timing">>),
      VTask(<<"Delete background noise">>, <<"Clean up audio by removing unwanted sounds">>, <<"audio", "quality">>)>>

ChineseAddition ==
    <<VTask(<<"zh:add transitions">>, <<"zh:insert smooth transitions">>, <<"zh:effects", "zh:visual">>),
      VTask(<<"zh:insert background music">>, <<"zh:add fitting music">>, <<"zh:audio", "zh:creative">>),
      VTask(<<"zh:make title sequence">>, <<"zh:add title cards">>, <<"zh:visual", "zh:creative">>)>>

EnglishAddition ==
    <<VTask(<<"Add transitions">>, <<"Insert smooth transitions between scenes for better flow">>, <<"effects", "visual">>),
      VTask(<<"Insert background music">>, <<"Add appropriate music to enhance the mood">>, <<"audio", "creative">>),
      VTask(<<"Create title sequence">>, <<"Add opening and closing title cards">>, <<"visual", "creative">>)>>

\* task objects numbered from 0
task_objects_from_zero(tasks, prefix) ==
    [i \in 1..Len(tasks) |->
        [id |-> <<prefix, ToString(i - 1)>>, title |-> tasks[i].title,
         description |-> tasks[i].details, completed |-> FALSE,
         tags |-> tasks[i].tags]]

\* VideoEditingTask(id=f"{prefix}{i+1}", ...), with tags when the entry has any
task_objects(tasks, prefix) ==
    [i \in 1..Len(tasks) |->
        [id |-> <<prefix, ToString(i)>>, title |-> tasks[i].title,
         description |-> tasks[i].details, completed |-> FALSE,
         tags |-> tasks[i].tags]]

VideoEditingOutput(title, subtractionTasks, additionTasks) ==
    [title |-> title, subtractionTasks |-> subtractionTasks,
     additionTasks |-> additionTasks]

DefaultVideoTitle == <<"Video Editing Project">>

\* lines 139-229: title and the two task lists as parsed, before substitution
InitialVideoState ==
    [title |-> DefaultVideoTitle, section |-> "none", sub |-> <<>>, add |-> <<>>]

\* video_editing.py: the dictionary json.loads returned; a list the loop
\* cannot iterate raises TypeError, and the line parser goes on from the
\* title and the tasks collected so far
VideoEditingHandler_parse_dict(d, lines) ==
    LET title == val_text(dict_get(d, "title", JStr(DefaultVideoTitle)))
        sub_raw == py_iter(dict_get(d, "subtractionTasks", JList(<<>>)))
        add_raw == py_iter(dict_get(d, "additionTasks", JList(<<>>)))
        st1 == [InitialVideoState EXCEPT !.title = title]
        st2 == [st1 EXCEPT !.sub =
                    normalize_tasks(sub_raw.val, "Remove or reduce: ", "editing")]
    IN IF sub_raw.raised THEN heuristic_parse(st1, lines, "handler")
       ELSE IF add_raw.raised THEN heuristic_parse(st2, lines, "handler")
       ELSE [st2 EXCEPT !.add =
                normalize_tasks(add_raw.val, "Add or enhance: ", "enhancement")]

\* parsed_data is what json.loads gave for the cleaned text
VideoEditingHandler_parse_loaded(parsed_data, lines) ==
    IF parsed_data.raised
    THEN heuristic_parse(InitialVideoState, lines, "handler")
    ELSE IF parsed_data.val.t # "dict" THEN InitialVideoState
    ELSE VideoEditingHandler_parse_dict(parsed_data.val.v, lines)

VideoEditingHandler_parse(ai_response) ==
    IF ai_response.kind # "str" THEN InitialVideoState
    ELSE VideoEditingHandler_parse_loaded(
            json_loads(strip_code_fence(ai_response.content)),
            split_lines(expand_docs(ai_response.content)))

\* a test for CJK ideographs instead of any non-ASCII code point
is_chinese_request_ideographs(request) ==
    \E i \in 1..Len(request) : request[i] \in CJKLo..CJKHi

\* any(ord(char) > 127 for char in request)
is_chinese_request(request) == \E i \in 1..Len(request) : request[i] > 127

\* the defaults for an empty list, then the task objects
VideoEditingHandler_plan_of(st, is_chinese) ==
    VideoEditingOutput(
        st.title,
        task_objects(IF st.sub # <<>> THEN st.sub
                     ELSE IF is_chinese THEN ChineseSubtraction
                     ELSE EnglishSubtraction, "sub_"),
        task_objects(IF st.add # <<>> THEN st.add
                     ELSE IF is_chinese THEN ChineseAddition
                     ELSE EnglishAddition, "add_"))

VideoEditingHandler_generate_video_editing_plan(request, completion) ==
    IF completion.kind = "raise" THEN Raise("ServiceError")
    ELSE Ret(VideoEditingHandler_plan_of(VideoEditingHandler_parse(completion),
                                         is_chinese_request(request)))

FallbackVideoChinese ==
    VideoEditingOutput(<<"General Video Editing">>,
        task_objects(
            <<VTask(<<"zh:remove unwanted footage">>, <<"zh:cut poor shots">>, <<"zh:editing", "zh:quality">>),
              VTask(<<"zh:clear background noise">>, <<"zh:clean the audio">>, <<"zh:audio", "zh:quality">>),
              VTask(<<"zh:delete redundant content">>, <<"zh:remove repeated segments">>, <<"zh:editing", "zh:timing">>)>>,
            "sub_"),
        task_objects(ChineseAddition, "add_"))

FallbackVideoEnglish ==
    VideoEditingOutput(<<"General Video Editing">>,
        task_objects(
            <<VTask(<<"Remove unwanted footage">>, <<"Cut out unnecessary or poor quality clips">>, <<"editing", "quality">>),
              VTask(<<"Reduce background noise">>, <<"Clean up audio by removing unwanted sounds">>, <<"audio", "quality">>),
              VTask(<<"Trim excess content">>, <<"Remove redundant or overly long segments">>, <<"editing", "timing">>)>>,
            "sub_"),
        task_objects(
            <<VTask(<<"Add smooth transitions">>, <<"Insert transitions between scenes for better flow">>, <<"effects", "visual">>),
              VTask(<<"Insert background music">>, <<"Add appropriate music to enhance the mood">>, <<"audio", "creative">>),
              VTask(<<"Create title cards">>, <<"Add opening and closing title sequences">>, <<"visual", "creative">>)>>,
            "add_"))

VideoEditingHandler_create_fallback_video_editing_response(language) ==
    LET fallback_data ==
            IF language = "zh" THEN FallbackVideoChinese ELSE FallbackVideoEnglish
        result_text == format_response("video_editing_fallback", language, EmptyDict)
    IN IF result_text.raised THEN result_text
       ELSE Ret(create_component_response(
                    result_text.val,
                    <<create_ui_component("videoEditingTodo", fallback_data)>>))

\* video_editing.py 50-75: the response for the plan, or the fallback when
\* making the plan or the text raised
VideoEditingHandler_respond(video_editing_data, language) ==
    LET removal_count == Len(video_editing_data.val.subtractionTasks)
        addition_count == Len(video_editing_data.val.additionTasks)
        result_text ==
            IF video_editing_data.raised THEN video_editing_data
            ELSE format_response("video_editing_success", language,
                    [c \in {"{title}", "{removal_count}", "{addition_count}",
                            "{total_count}"} |->
                        CASE c = "{title}" -> video_editing_data.val.title
                          [] c = "{removal_count}" -> int_str(removal_count)
                          [] c = "{addition_count}" -> int_str(addition_count)
                          [] OTHER -> int_str(removal_count + addition_count)])
    IN IF ~result_text.raised
       THEN Ret(create_component_response(
                    result_text.val,
                    <<create_ui_component("videoEditingTodo", video_editing_data.val)>>))
       ELSE VideoEditingHandler_create_fallback_video_editing_response(language)

VideoEditingHandler_process_request(request, language, env) ==
    VideoEditingHandler_respond(
        VideoEditingHandler_generate_video_editing_plan(request, env.c1), language)

\* video_editing.py 50-137: _generate_video_editing_plan holds the only
\* llm.ainvoke, and the fallback makes no call
VideoEditingHandler_process_request_calls(request, language, env) == <<"complete">>

(***************************************************************************)
(* The capability functions of graph.py, which call_model executes.        *)
(***************************************************************************)
\* RESPONSE_TEMPLATES[key][language]: KeyError when the language has none
graph_template(template_key, language) ==
    IF language \in DOMAIN graph_RESPONSE_TEMPLATES[template_key]
    THEN Ret(graph_RESPONSE_TEMPLATES[template_key][language])
    ELSE Raise("KeyError")

weather_kwargs(weather_data) ==
    [c \in {"{city}", "{temperature}", "{condition}", "{description}"} |->
        CASE c = "{city}" -> weather_data.city
          [] c = "{temperature}" -> weather_data.temperature
          [] c = "{condition}" -> weather_data.condition
          [] OTHER -> weather_data.description]

graph_fallback_weather(city) ==
    WeatherOutput(IF city = <<>> THEN SanFrancisco ELSE city,
                  <<"72", "<deg>F">>, <<"Partly Cloudy">>, <<"65", "%">>,
                  <<"8", " mph">>, <<"icon:sun-behind-cloud">>,
                  <<"linear-gradient(135deg, #74b9ff 0%, #0984e3 100%)">>,
                  <<"Weather data unavailable, showing sample data">>)

get_weather_data(city, language, wenv) ==
    LET weather_response == fetch_weather_data(city, wenv)
        weather_data ==
            IF weather_response.raised THEN weather_response
            ELSE format_weather_data(weather_response.val, city)
        template ==
            IF weather_data.raised THEN weather_data
            ELSE graph_template("weather", language)
        fallback_template == graph_template("weather_fallback", language)
    IN IF ~template.raised
       THEN Ret(create_component_response(
                    str_format(template.val, weather_kwargs(weather_data.val)).val,
                    <<create_ui_component("weather", weather_data.val)>>))
       ELSE IF fallback_template.raised THEN fallback_template
       ELSE Ret(create_component_response(
                    str_format(fallback_template.val,
                               weather_kwargs(graph_fallback_weather(city))).val,
                    <<create_ui_component("weather", graph_fallback_weather(city))>>))

get_todo_data(request, language, completion) ==
    LET todo_data == parse_task_plan(completion)
        template ==
            IF completion.kind = "raise" THEN Raise("ServiceError")
            ELSE graph_template("todo_success", language)
    IN IF ~template.raised
       THEN Ret(create_component_response(
                    str_format(template.val,
                        [c \in {"{title}", "{count}"} |->
                            IF c = "{title}" THEN todo_data.title
                            ELSE int_str(Len(todo_data.tasks))]).val,
                    <<create_ui_component("todo", todo_data)>>))
       ELSE Ret(create_component_response(
                    <<"I've created a general task plan with ">>
                        \o int_str(Len(FallbackTodo.tasks))
                        \o <<" steps to help you get started.">>,
                    <<create_ui_component("todo", FallbackTodo)>>))

\* [str(task) for task in raw if task]
RECURSIVE str_tasks(_)
str_tasks(items) ==
    IF items = <<>> THEN <<>>
    ELSE (IF truthy(Head(items)) THEN <<JStr(val_text(Head(items)))>> ELSE <<>>)
         \o str_tasks(Tail(items))

\* graph.py 472-502: the dictionary json.loads returned.  A list the
\* comprehension cannot iterate stays the raw JSON value, and the line parser
\* (found: what it collects) goes on from there; list.append on a value that
\* is no list raises AttributeError.
graph_video_parse_dict(d, found) ==
    LET title == val_text(dict_get(d, "title", JStr(DefaultVideoTitle)))
        sub_raw == dict_get(d, "subtractionTasks", JList(<<>>))
        add_raw == dict_get(d, "additionTasks", JList(<<>>))
        sub_ok == ~py_iter(sub_raw).raised
        add_ok == ~py_iter(add_raw).raised
        texts(l) == [i \in 1..Len(l) |-> JStr(l[i])]
        sub1 == IF sub_ok THEN JList(str_tasks(py_iter(sub_raw).val)) ELSE sub_raw
        add1 == IF sub_ok /\ add_ok THEN JList(str_tasks(py_iter(add_raw).val))
                ELSE add_raw
    IN IF sub_ok /\ add_ok
       THEN Ret([title |-> title, sub |-> sub1, add |-> add1])
       ELSE IF (found.sub # <<>> /\ sub1.t # "list")
               \/ (found.add # <<>> /\ add1.t # "list")
       THEN Raise("AttributeError")
       ELSE Ret([title |-> IF found.title # DefaultVideoTitle THEN found.title
                           ELSE title,
                 sub |-> IF sub1.t = "list"
                         THEN JList(sub1.v \o texts(found.sub)) ELSE sub1,
                 add |-> IF add1.t = "list"
                         THEN JList(add1.v \o texts(found.add)) ELSE add1])

\* graph.py 453-502
graph_video_parse_loaded(parsed_data, found) ==
    IF parsed_data.raised
    THEN Ret([title |-> found.title,
              sub |-> JList([i \in 1..Len(found.sub) |-> JStr(found.sub[i])]),
              add |-> JList([i \in 1..Len(found.add) |-> JStr(found.add[i])])])
    ELSE IF parsed_data.val.t # "dict"
    THEN Ret([title |-> DefaultVideoTitle, sub |-> JList(<<>>), add |-> JList(<<>>)])
    ELSE graph_video_parse_dict(parsed_data.val.v, found)

\* graph.py 448-502: the title and the two task lists after parsing
graph_video_parse(ai_response) ==
    IF ai_response.kind # "str"
    THEN Ret([title |-> DefaultVideoTitle, sub |-> JList(<<>>), add |-> JList(<<>>)])
    ELSE graph_video_parse_loaded(
            json_loads(strip_code_fence(ai_response.content)),
            heuristic_parse(InitialVideoState,
                            split_lines(expand_docs(ai_response.content)), "graph"))

graph_task_objects(tasks, prefix, details_prefix) ==
    [i \in 1..Len(tasks) |->
        [id |-> <<prefix, ToString(i)>>, title |-> tasks[i].v,
         description |-> <<details_prefix>> \o lower(tasks[i].v),
         completed |-> FALSE, tags |-> <<>>]]

graph_default_subtraction ==
    JList(<<JStr(<<"Remove unwanted footage">>), JStr(<<"Cut unnecessary scenes">>),
            JStr(<<"Delete background noise">>)>>)

graph_default_addition ==
    JList(<<JStr(<<"Add transitions">>), JStr(<<"Insert background music">>),
            JStr(<<"Create title sequence">>)>>)

\* graph.py 504-535: the defaults for an empty list, then the task objects;
\* enumerate() of a number raises TypeError, .lower() of a task that is no
\* string raises AttributeError
graph_video_objects(title, sub, add) ==
    IF sub.t # "list" \/ add.t # "list" THEN Raise("TypeError")
    ELSE IF \E i \in 1..Len(sub.v) : sub.v[i].t # "str"
    THEN Raise("AttributeError")
    ELSE IF \E i \in 1..Len(add.v) : add.v[i].t # "str"
    THEN Raise("AttributeError")
    ELSE Ret(VideoEditingOutput(
                title,
                graph_task_objects(sub.v, "sub_", "Remove or reduce: "),
                graph_task_objects(add.v, "add_", "Add or enhance: ")))

graph_video_plan_of(parsed) ==
    IF parsed.raised THEN parsed
    ELSE graph_video_objects(
            parsed.val.title,
            IF truthy(parsed.val.sub) THEN parsed.val.sub
            ELSE graph_default_subtraction,
            IF truthy(parsed.val.add) THEN parsed.val.add
            ELSE graph_default_addition)

graph_video_plan(completion) ==
    IF completion.kind = "raise" THEN Raise("ServiceError")
    ELSE graph_video_plan_of(graph_video_parse(completion))

graph_fallback_video ==
    VideoEditingOutput(DefaultVideoTitle,
        task_objects(
            <<VTask(<<"Remove unwanted footage">>, <<"Cut out unnecessary or poor quality clips">>, <<>>),
              VTask(<<"Delete background noise">>, <<"Clean up audio by removing unwanted sounds">>, <<>>)>>,
            "sub_"),
        task_objects(
            <<VTask(<<"Add transitions">>, <<"Insert smooth transitions between clips">>, <<>>),
              VTask(<<"Insert background music">>, <<"Add appropriate music to enhance the video">>, <<>>)>>,
            "add_"))

\* graph.py 537-589
graph_video_respond(plan, language) ==
    LET template ==
            IF plan.raised THEN plan
            ELSE graph_template("video_editing_success", language)
        fallback_template == graph_template("video_editing_fallback", language)
        removal_count == Len(plan.val.subtractionTasks)
        addition_count == Len(plan.val.additionTasks)
    IN IF ~template.raised
       THEN Ret(create_component_response(
                    str_format(template.val,
                        [c \in {"{title}", "{removal_count}", "{addition_count}",
                                "{total_count}"} |->
                            CASE c = "{title}" -> plan.val.title
                              [] c = "{removal_count}" -> int_str(removal_count)
                              [] c = "{addition_count}" -> int_str(addition_count)
                              [] OTHER -> int_str(removal_count + addition_count)]).val,
                    <<create_ui_component("videoEditingTodo", plan.val)>>))
       ELSE IF fallback_template.raised THEN fallback_template
       ELSE Ret(create_component_response(
                    fallback_template.val,
                    <<create_ui_component("videoEditingTodo", graph_fallback_video)>>))

get_video_editing_data(request, language, completion) ==
    graph_video_respond(graph_video_plan(completion), language)

(***************************************************************************)
(* Inputs of the handler calls.                                            *)
(***************************************************************************)
\* language tags: the detector's three and one tag no template has
Languages == {"en", "zh", "ja", "fr"}

\* requests: ASCII, a CJK ideograph, a Latin-1 letter
Requests == {<<65>>, <<19968, 65>>, <<233>>}

RECURSIVE join_lines(_)
join_lines(lines) ==
    IF lines = <<>> THEN <<>>
    ELSE IF Len(lines) = 1 THEN Head(lines)
    ELSE Head(lines) \o <<"\n">> \o join_lines(Tail(lines))

TodoLines ==
    { <<"Title:", " ", "Learn Guitar">>, <<"Title:">>, <<"Tasks:">>, <<>>,
      <<"-", " ", "Buy a guitar">>, <<"*", " ", "Practice daily">>,
      <<" ", "-", " ", " ", "Learn chords", " ">>, <<"-", "no space">>,
      <<"1.", " ", "numbered">>, <<"-", " ", " ">> }

TodoCompletions ==
    {CompletionRaises, CompletionNonString}
    \cup {CompletionText(join_lines(ls)) : ls \in SeqsUpTo(TodoLines, MaxTodoLines)}

VideoLines ==
    { <<"Title", ":", " ", "\"", "My Film", "\"">>,
      <<"Subtraction", " ", "Tasks", ":">>, <<"addition", " ", "[">>,
      <<"-", " ", "cut intro">>, <<"\"", "add music", "\"", ",">>,
      <<"\"", "add titles", "\"">>, <<"plain words">> }

FencedDocs ==
    UNION { { <<d>>, <<"<fence>json", "\n", d, "\n", "<fence>">>,
              <<" ", "<fence>", d, "<fence>", "\n">> } : d \in DOMAIN JsonDocs }

VideoCompletions ==
    {CompletionRaises, CompletionNonString}
    \cup {CompletionText(t) : t \in FencedDocs}
    \cup {CompletionText(join_lines(ls)) : ls \in SeqsUpTo(VideoLines, MaxVideoLines)}

CityCompletions ==
    {CompletionRaises, CompletionNonString, CompletionText(<<"Tokyo">>),
     CompletionText(<<" ", "New York", "\n">>), CompletionText(<<>>)}

ConditionTexts ==
    { <<"S", "u", "n", "n", "y">>,
      <<"L", "i", "g", "h", "t", " ", "r", "a", "i", "n">>,
      <<"D", "R", "I", "Z", "Z", "L", "E">>,
      <<"C", "l", "o", "u", "d", "y">>,
      <<"R", "a", "i", "n", " ", "c", "l", "o", "u", "d">>,
      <<"S", "u", "n", " ", "c", "l", "o", "u", "d">>,
      <<"C", "l", "e", "a", "r", " ", "s", "n", "o", "w">>,
      <<"S", "n", "o", "w">>,
      <<"M", "i", "s", "t">> }

WeatherDoc(condition_text) ==
    JDict([current |->
        JDict([temp_f |-> JNum(<<"97.2">>),
               condition |-> JDict([text |-> JStr(condition_text)]),
               humidity |-> JNum(<<"45">>),
               wind_mph |-> JNum(<<"4.7">>)])])

\* documents of an unexpected shape
OddWeatherDocs ==
    { JDict(EmptyDict), JList(<<>>), JDict([current |-> JNull]),
      JDict([current |-> JDict([condition |-> JStr(<<"S", "u", "n">>)])]),
      JDict([current |-> JDict([condition |-> JDict([text |-> JNull])])]) }

WeatherDocs == {WeatherDoc(c) : c \in ConditionTexts} \cup OddWeatherDocs

NoDoc == JNull

\* the weather service's outcomes: no credential, a failed GET, a document
WeatherServiceEnvs ==
    {[api_key |-> FALSE, http |-> "ok", doc |-> NoDoc]}
    \cup {[api_key |-> TRUE, http |-> h, doc |-> NoDoc] :
            h \in {"transport_error", "status_error", "json_error"}}
    \cup {[api_key |-> TRUE, http |-> "ok", doc |-> d] : d \in WeatherDocs}

Env(c1, c2, w) ==
    [c1 |-> c1, c2 |-> c2, api_key |-> w.api_key, http |-> w.http, doc |-> w.doc]

NoService == [api_key |-> FALSE, http |-> "ok", doc |-> NoDoc]

WeatherEnvs ==
    {Env(c1, c2, w) : c1 \in CityCompletions, c2 \in CityCompletions,
                      w \in WeatherServiceEnvs}
TodoEnvs == {Env(c, CompletionRaises, NoService) : c \in TodoCompletions}
VideoEnvs == {Env(c, CompletionRaises, NoService) : c \in VideoCompletions}

NoEnv == Env(CompletionRaises, CompletionRaises, NoService)
NoOut == Raise("not called")
NoFirst == [called |-> FALSE, env |-> NoEnv, out |-> NoOut]

(***************************************************************************)
(* Idle values of the parts a specification does not exercise.             *)
(***************************************************************************)
NoCall == [template_key |-> "", language |-> "", kwargs |-> EmptyDict]

TemplateIdle == template_call = NoCall /\ template_out = NoOut

LangIdle == text = <<>> /\ lang = NoLang /\ TemplateIdle

HandlerIdle ==
    /\ h_pc = "idle" /\ h_handler = "none" /\ h_request = <<>>
    /\ h_language = "en" /\ h_env = NoEnv /\ h_out = NoOut
    /\ h_first = NoFirst /\ h_calls = <<>>

DefaultHandlers ==
    [weather |-> "WeatherHandler", todo |-> "TodoHandler",
     video_editing |-> "VideoEditingHandler"]

RegistryIdle ==
    /\ handlers = DefaultHandlers /\ instances = EmptyDict
    /\ reg_made = 0 /\ reg_log = <<>>

NoResponse ==
    [type |-> "ai", id |-> <<>>, tool_call_id |-> <<>>, content |-> <<>>,
     tool_calls |-> <<>>]

OrchIdle ==
    /\ pc = "idle" /\ messages = <<>> /\ user_language = "en"
    /\ response = NoResponse /\ tc = 0 /\ tool_messages = <<>> /\ returned = <<>>
    /\ ui = <<>> /\ uuid = 0 /\ executed = <<>> /\ model_calls = 0
    /\ error = "" /\ owner = <<>>

(***************************************************************************)
(* SpecLang: detect_language applied to one text.                          *)
(***************************************************************************)
InitLang ==
    /\ text \in Texts /\ lang = NoLang /\ TemplateIdle
    /\ HandlerIdle /\ RegistryIdle /\ OrchIdle

Detect ==
    /\ lang = NoLang
    /\ lang' = [utils |-> detect_language(text),
                graph |-> graph_detect_language(text)]
    /\ UNCHANGED <<text, template_call, template_out, handlerVars, regVars,
                   orchVars>>

NextLang == Detect

SpecLang == InitLang /\ [][NextLang]_vars

(***************************************************************************)
(* ComponentRegistry (handlers/registry.py).  A handler class is its name; *)
(* an instance is its class with the number of the construction that made  *)
(* it, which stands for the identity of the object.  Every operation takes *)
(* the registry and gives the registry after it with the value returned.   *)
(***************************************************************************)
dict_set(d, k, v) == [x \in DOMAIN d \cup {k} |-> IF x = k THEN v ELSE d[x]]
dict_del(d, k) == [x \in DOMAIN d \ {k} |-> d[x]]

NoInstance == [cls |-> "None", id |-> 0]

Registry == [handlers |-> handlers, instances |-> instances, made |-> reg_made]

RegistryReturn(handlers_, instances_, made, instance, removed, listed) ==
    [handlers |-> handlers_, instances |-> instances_, made |-> made,
     instance |-> instance, removed |-> removed, listed |-> listed]

\* a registration that leaves a cached instance in place
ComponentRegistry_register_handler_keeps_cache(reg, component_type, handler_class) ==
    RegistryReturn(dict_set(reg.handlers, component_type, handler_class),
                   reg.instances, reg.made, NoInstance, FALSE, EmptyDict)

\* registry.py 28-38
ComponentRegistry_register_handler(reg, component_type, handler_class) ==
    RegistryReturn(dict_set(reg.handlers, component_type, handler_class),
                   IF component_type \in DOMAIN reg.instances
                   THEN dict_del(reg.instances, component_type)
                   ELSE reg.instances,
                   reg.made, NoInstance, FALSE, EmptyDict)

\* registry.py 40-57
ComponentRegistry_get_handler(reg, component_type) ==
    IF component_type \notin DOMAIN reg.handlers
    THEN RegistryReturn(reg.handlers, reg.instances, reg.made, NoInstance,
                        FALSE, EmptyDict)
    ELSE IF component_type \notin DOMAIN reg.instances
    THEN LET instance == [cls |-> reg.handlers[component_type],
                          id |-> reg.made + 1]
         IN RegistryReturn(reg.handlers,
                           dict_set(reg.instances, component_type, instance),
                           reg.made + 1, instance, FALSE, EmptyDict)
    ELSE RegistryReturn(reg.handlers, reg.instances, reg.made,
                        reg.instances[component_type], FALSE, EmptyDict)

\* registry.py 59-65
ComponentRegistry_list_handlers(reg) ==
    RegistryReturn(reg.handlers, reg.instances, reg.made, NoInstance, FALSE,
                   [comp_type \in DOMAIN reg.handlers |-> reg.handlers[comp_type]])

\* an unregistration that leaves the cached instance in place
ComponentRegistry_unregister_handler_keeps_instance(reg, component_type) ==
    RegistryReturn(IF component_type \in DOMAIN reg.handlers
                   THEN dict_del(reg.handlers, component_type)
                   ELSE reg.handlers,
                   reg.instances, reg.made, NoInstance,
                   component_type \in DOMAIN reg.handlers, EmptyDict)

\* an unregistration that always reports a removal
ComponentRegistry_unregister_handler_always_true(reg, component_type) ==
    RegistryReturn(IF component_type \in DOMAIN reg.handlers
                   THEN dict_del(reg.handlers, component_type)
                   ELSE reg.handlers,
                   IF component_type \in DOMAIN reg.instances
                   THEN dict_del(reg.instances, component_type)
                   ELSE reg.instances,
                   reg.made, NoInstance, TRUE, EmptyDict)

\* registry.py 67-84
ComponentRegistry_unregister_handler(reg, component_type) ==
    RegistryReturn(IF component_type \in DOMAIN reg.handlers
                   THEN dict_del(reg.handlers, component_type)
                   ELSE reg.handlers,
                   IF component_type \in DOMAIN reg.instances
                   THEN dict_del(reg.instances, component_type)
                   ELSE reg.instances,
                   reg.made, NoInstance,
                   component_type \in DOMAIN reg.handlers, EmptyDict)

(***************************************************************************)
(* SpecRegistry: a sequence of calls on one ComponentRegistry.             *)
(***************************************************************************)
ComponentTypes == {"weather", "chart"}

HandlerClasses == {"WeatherHandler", "ChartHandler"}

InitRegistry == RegistryIdle /\ LangIdle /\ HandlerIdle /\ OrchIdle

\* the call op(component_type, handler_class) that returned r is made and
\* recorded with the registry it left
RegistryCall(op, component_type, handler_class, r) ==
    /\ Len(reg_log) < MaxRegOps
    /\ handlers' = r.handlers
    /\ instances' = r.instances
    /\ reg_made' = r.made
    /\ reg_log' = Append(reg_log,
                         [op |-> op, component_type |-> component_type,
                          handler_class |-> handler_class,
                          instance |-> r.instance, removed |-> r.removed,
                          listed |-> r.listed, handlers |-> r.handlers,
                          instances |-> r.instances])
    /\ UNCHANGED <<langVars, handlerVars, orchVars>>

CallRegister ==
    \E component_type \in ComponentTypes, handler_class \in HandlerClasses :
        RegistryCall("register", component_type, handler_class,
                     ComponentRegistry_register_handler(Registry, component_type,
                                                        handler_class))

CallGet ==
    \E component_type \in ComponentTypes :
        RegistryCall("get", component_type, "",
                     ComponentRegistry_get_handler(Registry, component_type))

CallList ==
    RegistryCall("list", "", "", ComponentRegistry_list_handlers(Registry))

CallUnregister ==
    \E component_type \in ComponentTypes :
        RegistryCall("unregister", component_type, "",
                     ComponentRegistry_unregister_handler(Registry,
                                                          component_type))

NextRegistry == CallRegister \/ CallGet \/ CallList \/ CallUnregister

SpecRegistry == InitRegistry /\ [][NextRegistry]_vars

(***************************************************************************)
(* SpecTemplates: one response text formatted from a template, by          *)
(* format_response of utils/language.py and by the indexing graph.py uses. *)
(***************************************************************************)
TemplateKeys == DOMAIN RESPONSE_TEMPLATES \cup {"greeting"}

TemplateLanguages == Languages \cup {"ko"}

\* keyword arguments naming every placeholder
TemplateKwargs ==
    { [c \in Placeholders |-> <<v>>] : v \in {"Tokyo", "4", ""} }

\* graph.py 227-233: template = RESPONSE_TEMPLATES[key][language], then
\* template.format(...)
graph_format(template_key, language, kwargs) ==
    LET template == graph_template(template_key, language)
    IN IF template.raised THEN template ELSE str_format(template.val, kwargs)

InitTemplates ==
    /\ template_call \in [template_key : TemplateKeys,
                          language : TemplateLanguages,
                          kwargs : TemplateKwargs]
    /\ template_out = NoOut
    /\ text = <<>> /\ lang = NoLang
    /\ HandlerIdle /\ RegistryIdle /\ OrchIdle

\* graph.py holds templates for the keys of its own calls only
Format ==
    /\ template_out = NoOut
    /\ LET c == template_call
       IN template_out' =
              [raised |-> FALSE, exc |-> "",
               val |-> [template |-> get_response_template(c.template_key,
                                                           c.language),
                        utils |-> format_response(c.template_key, c.language,
                                                  c.kwargs),
                        graph |-> IF c.template_key \in DOMAIN graph_RESPONSE_TEMPLATES
                                  THEN graph_format(c.template_key, c.language,
                                                    c.kwargs)
                                  ELSE NoOut]]
    /\ UNCHANGED <<text, lang, template_call, handlerVars, regVars, orchVars>>

NextTemplates == Format

SpecTemplates == InitTemplates /\ [][NextTemplates]_vars

(***************************************************************************)
(* SpecHandlers: one process_request call of one handler.                  *)
(***************************************************************************)
InitHandlers ==
    /\ h_pc = "call"
    /\ h_handler \in {"weather", "todo", "video_editing"}
    /\ h_request \in Requests
    /\ h_language \in Languages
    /\ h_env \in CASE h_handler = "weather" -> WeatherEnvs
                   [] h_handler = "todo" -> TodoEnvs
                   [] OTHER -> VideoEnvs
    /\ h_out = NoOut /\ h_first = NoFirst /\ h_calls = <<>>
    /\ LangIdle /\ RegistryIdle /\ OrchIdle

WeatherProcess ==
    /\ h_pc = "call" /\ h_handler = "weather"
    /\ h_out' = WeatherHandler_process_request(h_request, h_language, h_env)
    /\ h_calls' = WeatherHandler_process_request_calls(h_request, h_language, h_env)
    /\ h_pc' = "returned"
    /\ UNCHANGED <<h_handler, h_request, h_language, h_env, h_first,
                   langVars, regVars, orchVars>>

TodoProcess ==
    /\ h_pc = "call" /\ h_handler = "todo"
    /\ h_out' = TodoHandler_process_request(h_request, h_language, h_env)
    /\ h_calls' = TodoHandler_process_request_calls(h_request, h_language, h_env)
    /\ h_pc' = "returned"
    /\ UNCHANGED <<h_handler, h_request, h_language, h_env, h_first,
                   langVars, regVars, orchVars>>

VideoProcess ==
    /\ h_pc = "call" /\ h_handler = "video_editing"
    /\ h_out' = VideoEditingHandler_process_request(h_request, h_language, h_env)
    /\ h_calls' = VideoEditingHandler_process_request_calls(h_request, h_language, h_env)
    /\ h_pc' = "returned"
    /\ UNCHANGED <<h_handler, h_request, h_language, h_env, h_first,
                   langVars, regVars, orchVars>>

NextHandlers == WeatherProcess \/ TodoProcess \/ VideoProcess

SpecHandlers == InitHandlers /\ [][NextHandlers]_vars

(***************************************************************************)
(* SpecFallback: two process_request calls of one handler with the same    *)
(* request and language; the services answer each call on their own.       *)
(***************************************************************************)
FailingServices ==
    {[api_key |-> FALSE, http |-> "ok", doc |-> NoDoc]}
    \cup {[api_key |-> TRUE, http |-> h, doc |-> NoDoc] :
            h \in {"transport_error", "status_error", "json_error"}}

FallbackEnvs(handler) ==
    CASE handler = "weather" ->
           {Env(c1, c2, w) :
              c1 \in {CompletionRaises, CompletionText(<<"Tokyo">>)},
              c2 \in {CompletionRaises, CompletionText(<<"Tokyo">>),
                      CompletionText(<<"Paris">>)},
              w \in FailingServices
                    \cup {[api_key |-> TRUE, http |-> "ok",
                           doc |-> WeatherDoc(<<"S", "u", "n", "n", "y">>)]}}
      [] handler = "todo" ->
           {Env(c, CompletionRaises, NoService) :
              c \in {CompletionRaises, CompletionNonString,
                     CompletionText(<<"-", " ", "Invite guests">>)}}
      [] OTHER ->
           {Env(c, CompletionRaises, NoService) :
              c \in {CompletionRaises, CompletionNonString,
                     CompletionText(<<"doc_objects">>)}}

InitFallback ==
    /\ h_pc = "call"
    /\ h_handler \in {"weather", "todo", "video_editing"}
    /\ h_request \in Requests
    /\ h_language \in Languages
    /\ h_env \in FallbackEnvs(h_handler)
    /\ h_out = NoOut /\ h_first = NoFirst /\ h_calls = <<>>
    /\ LangIdle /\ RegistryIdle /\ OrchIdle

\* the handler is called a second time with the same request and language
CallAgain ==
    /\ h_pc = "returned" /\ ~h_first.called
    /\ h_first' = [called |-> TRUE, env |-> h_env, out |-> h_out]
    /\ h_env' \in FallbackEnvs(h_handler)
    /\ h_out' = NoOut /\ h_calls' = <<>>
    /\ h_pc' = "call"
    /\ UNCHANGED <<h_handler, h_request, h_language, langVars, regVars,
                   orchVars>>

NextFallback == WeatherProcess \/ TodoProcess \/ VideoProcess \/ CallAgain

SpecFallback == InitFallback /\ [][NextFallback]_vars

(***************************************************************************)
(* call_model (graph.py 596-796), the only node of the graph.              *)
(*                                                                         *)
(* Message ids are tuples: <<"run", n>> an id given by the model provider, *)
(* <<"call", i>> the id of the i-th tool call, <<"uuid", n>> the n-th      *)
(* str(uuid.uuid4()) of the invocation (uuid4 values are taken to be       *)
(* pairwise distinct), <<>> no id.  The provider's protocol gives every    *)
(* tool call a string id and a dictionary of arguments.                    *)
(***************************************************************************)
NoId == <<>>

AIMessage(id, content, tool_calls) ==
    [type |-> "ai", id |-> id, tool_call_id |-> NoId, content |-> content,
     tool_calls |-> tool_calls]

ToolMessage(content, tool_call_id) ==
    [type |-> "tool", id |-> NoId, tool_call_id |-> tool_call_id,
     content |-> content, tool_calls |-> <<>>]

\* the content of a message of the history: a string or a list of blocks
StrContent(t) == [kind |-> "str", v |-> t]
ListContent(items) == [kind |-> "list", v |-> items]
TextBlock(t) == [kind |-> "dict", type |-> "text", text |-> t]
ImageBlock == [kind |-> "dict", type |-> "image_url", text |-> <<>>]
StrItem(t) == [kind |-> "str", type |-> "", text |-> t]
HumanMessage(content) == [type |-> "human", content |-> content]
\* a message of the assistant in the history handed to call_model
AssistantTurn(content) == [type |-> "ai", content |-> content]

\* graph.py 609-616: the text of the first text block or string item
RECURSIVE first_text(_)
first_text(content) ==
    IF content = <<>> THEN <<>>
    ELSE IF Head(content).kind = "dict" /\ Head(content).type = "text"
    THEN Head(content).text
    ELSE IF Head(content).kind = "str" THEN Head(content).text
    ELSE first_text(Tail(content))

\* graph.py 600-620
call_model_language(history) ==
    IF history = <<>> THEN "en"
    ELSE LET content == history[Len(history)].content
         IN IF content.v = <<>> THEN "en"
            ELSE IF content.kind = "list"
            THEN (IF first_text(content.v) # <<>>
                  THEN graph_detect_language(first_text(content.v))
                  ELSE "en")
            ELSE graph_detect_language(content.v)

ToolCall(name, args, i) == [name |-> name, args |-> args, id |-> <<"call", i>>]

\* graph.py 741-750: the capability function a tool call runs, if any
KnownTools == {"get_weather_data", "get_todo_data", "get_video_editing_data"}

tool_argument ==
    [get_weather_data |-> "city", get_todo_data |-> "request",
     get_video_editing_data |-> "request"]

\* str(KeyError(key))
KeyErrorText == [city |-> "'city'", request |-> "'request'"]

\* an unknown name treated as an execution error
tool_result_unknown_raises(tool_call, outcome) ==
    IF tool_call.name \in KnownTools
    THEN (IF tool_argument[tool_call.name] \in DOMAIN tool_call.args
          THEN outcome
          ELSE Raise(KeyErrorText[tool_argument[tool_call.name]]))
    ELSE Raise("Unknown tool")

\* graph.py 743-750.  outcome is what the capability function returned; a
\* missing argument raises KeyError before the function is called.
tool_result(tool_call, outcome) ==
    IF tool_call.name \in KnownTools
    THEN (IF tool_argument[tool_call.name] \in DOMAIN tool_call.args
          THEN outcome
          ELSE Raise(KeyErrorText[tool_argument[tool_call.name]]))
    ELSE Ret(create_component_response(
                <<"Unknown tool:", " ", tool_call.name>>, <<>>))

\* the components pushed without their messages being appended
RECURSIVE push_components_no_append(_, _, _, _, _)
push_components_no_append(components, result_text, n, k, push_fail) ==
    IF components = <<>> \/ k = push_fail
    THEN [msgs |-> <<>>, ui |-> <<>>, raised |-> components # <<>>]
    ELSE LET rest == push_components_no_append(Tail(components), result_text,
                                               n + 1, k + 1, push_fail)
         IN [msgs |-> rest.msgs,
             ui |-> <<[name |-> Head(components).type,
                       props |-> Head(components).data,
                       message_id |-> <<"uuid", n + 1>>]>> \o rest.ui,
             raised |-> rest.raised]

\* graph.py 760-773: the messages and UI events of the components pushed
\* before push_ui_message raises at component number push_fail (0: never)
RECURSIVE push_components(_, _, _, _, _)
push_components(components, result_text, n, k, push_fail) ==
    IF components = <<>> \/ k = push_fail
    THEN [msgs |-> <<>>, ui |-> <<>>, raised |-> components # <<>>]
    ELSE LET ui_message == AIMessage(<<"uuid", n + 1>>, result_text, <<>>)
             rest == push_components(Tail(components), result_text, n + 1,
                                     k + 1, push_fail)
         IN [msgs |-> <<ui_message>> \o rest.msgs,
             ui |-> <<[name |-> Head(components).type,
                       props |-> Head(components).data,
                       message_id |-> ui_message.id]>> \o rest.ui,
             raised |-> rest.raised]

PushError == "Called get_config outside of a runnable context"

\* graph.py 741-781: one iteration of the loop over response.tool_calls
process_tool_call(tool_call, outcome, n, push_fail, prev_error) ==
    LET tool_result_ == tool_result(tool_call, outcome)
        error_message(e) ==
            ToolMessage(<<"Error executing ", tool_call.name, ": ", e>>,
                        tool_call.id)
    IN IF tool_result_.raised
       THEN [msgs |-> <<error_message(tool_result_.exc)>>, ui |-> <<>>,
             uuids |-> 0, error |-> tool_result_.exc]
       ELSE LET tool_message == ToolMessage(tool_result_.val.result, tool_call.id)
                pushed == push_components(tool_result_.val.ui_components,
                                          tool_result_.val.result, n, 1, push_fail)
            IN [msgs |-> <<tool_message>> \o pushed.msgs
                         \o (IF pushed.raised THEN <<error_message(PushError)>>
                             ELSE <<>>),
                ui |-> pushed.ui,
                uuids |-> Len(pushed.msgs) + (IF pushed.raised THEN 1 ELSE 0),
                error |-> IF pushed.raised THEN PushError ELSE prev_error]

(***************************************************************************)
(* SpecTools: one call of a capability function of graph.py, with a        *)
(* language tag call_model can pass (a value of graph.py's                 *)
(* detect_language).  h_handler names the function.                        *)
(***************************************************************************)
GraphLanguages == {"en", "zh", "ja"}

InitTools ==
    /\ h_pc = "call"
    /\ h_handler \in KnownTools
    /\ h_request \in Requests
    /\ h_language \in GraphLanguages
    /\ h_env \in CASE h_handler = "get_weather_data" -> WeatherEnvs
                   [] h_handler = "get_todo_data" -> TodoEnvs
                   [] OTHER -> VideoEnvs
    /\ h_out = NoOut /\ h_first = NoFirst /\ h_calls = <<>>
    /\ LangIdle /\ RegistryIdle /\ OrchIdle

\* graph.py 205-273; the city is the one the model named
ToolWeather ==
    /\ h_pc = "call" /\ h_handler = "get_weather_data"
    /\ h_out' = get_weather_data(<<"Tokyo">>, h_language, h_env)
    /\ h_pc' = "returned"
    /\ UNCHANGED <<h_handler, h_request, h_language, h_env, h_first, h_calls,
                   langVars, regVars, orchVars>>

\* graph.py 276-391
ToolTodo ==
    /\ h_pc = "call" /\ h_handler = "get_todo_data"
    /\ h_out' = get_todo_data(h_request, h_language, h_env.c1)
    /\ h_pc' = "returned"
    /\ UNCHANGED <<h_handler, h_request, h_language, h_env, h_first, h_calls,
                   langVars, regVars, orchVars>>

\* graph.py 394-589
ToolVideoEditing ==
    /\ h_pc = "call" /\ h_handler = "get_video_editing_data"
    /\ h_out' = get_video_editing_data(h_request, h_language, h_env.c1)
    /\ h_pc' = "returned"
    /\ UNCHANGED <<h_handler, h_request, h_language, h_env, h_first, h_calls,
                   langVars, regVars, orchVars>>

NextTools == ToolWeather \/ ToolTodo \/ ToolVideoEditing

SpecTools == InitTools /\ [][NextTools]_vars

ApologyPrefix ==
    "I apologize, but I encountered an error while processing your request. Please try again. Error: "

\* inputs of call_model
Histories ==
    { <<>>,
      <<HumanMessage(StrContent(<<72, 105>>))>>,
      <<HumanMessage(StrContent(<<>>))>>,
      <<HumanMessage(StrContent(<<19968, 12354>>))>>,
      <<HumanMessage(StrContent(<<12354>>)), HumanMessage(StrContent(<<19968>>))>>,
      <<HumanMessage(ListContent(<<ImageBlock, TextBlock(<<19968>>),
                                   StrItem(<<12354>>)>>))>>,
      <<HumanMessage(ListContent(<<ImageBlock>>))>>,
      <<HumanMessage(StrContent(<<12354>>)), AssistantTurn(StrContent(<<72, 105>>))>>,
      <<HumanMessage(StrContent(<<72, 105>>)), AssistantTurn(StrContent(<<19968>>))>> }

City == <<"Tokyo">>
PlanRequest == <<"plan a party">>

\* what the model may ask for: a name and its arguments
ToolRequests ==
    { [name |-> "get_weather_data", args |-> [city |-> City]],
      [name |-> "get_weather_data", args |-> EmptyDict],
      [name |-> "get_todo_data", args |-> [request |-> PlanRequest]],
      [name |-> "get_video_editing_data", args |-> [request |-> PlanRequest]],
      [name |-> "get_stock_price", args |-> [symbol |-> <<"ACME">>]],
      [name |-> "weather", args |-> [city |-> City]] }

ToolCalls ==
    { [i \in 1..Len(rs) |-> ToolCall(rs[i].name, rs[i].args, i)] :
        rs \in SeqsUpTo(ToolRequests, MaxCalls) }

ResponseId == <<"run", 1>>

Responses ==
    {AIMessage(ResponseId, c, <<>>) : c \in {<<"Hello! How can I help?">>, <<>>}}
    \cup {AIMessage(ResponseId, <<>>, tcs) : tcs \in ToolCalls \ {<<>>}}

ModelErrors == {"Connection error.", "Rate limit reached"}

\* outcomes of the services a capability function calls
WeatherOutcomes ==
    { NoService,
      [api_key |-> TRUE, http |-> "status_error", doc |-> NoDoc],
      [api_key |-> TRUE, http |-> "ok",
       doc |-> WeatherDoc(<<"S", "u", "n", "n", "y">>)],
      [api_key |-> TRUE, http |-> "ok", doc |-> JDict([current |-> JNull])] }

TodoOutcomes ==
    { CompletionRaises, CompletionNonString,
      CompletionText(<<"Title:", " ", "Party Plan", "\n", "-", " ", "Invite guests">>) }

VideoOutcomes ==
    { CompletionRaises,
      CompletionText(<<"<fence>json", "\n", "doc_objects", "\n", "<fence>">>),
      CompletionText(<<"doc_number_subtractions">>),
      CompletionText(<<"Subtraction", " ", "Tasks", ":", "\n", "-", " ", "cut intro">>) }

(***************************************************************************)
(* Spec: one invocation of call_model, with the handler registry of        *)
(* handlers/registry.py alongside it.                                      *)
(***************************************************************************)

RegistryTypes == {"weather"}

Init ==
    /\ pc = "start" /\ messages \in Histories /\ user_language = "en"
    /\ response = NoResponse /\ tc = 0 /\ tool_messages = <<>>
    /\ returned = <<>> /\ ui = <<>> /\ uuid = 0 /\ executed = <<>>
    /\ model_calls = 0 /\ error = "" /\ owner = <<>>
    /\ RegistryIdle
    /\ LangIdle /\ HandlerIdle

\* registry.py 28-38, before an invocation of call_model
register_handler ==
    /\ pc = "start"
    /\ \E component_type \in RegistryTypes :
          /\ component_type \notin DOMAIN handlers
          /\ LET r == ComponentRegistry_register_handler(
                          Registry, component_type,
                          DefaultHandlers[component_type])
             IN /\ handlers' = r.handlers
                /\ instances' = r.instances
                /\ reg_made' = r.made
    /\ UNCHANGED <<reg_log, langVars, handlerVars, orchVars>>

\* registry.py 40-57, before an invocation of call_model: a lookup that
\* constructs the instance
get_handler ==
    /\ pc = "start"
    /\ reg_made < MaxInstances
    /\ \E component_type \in RegistryTypes :
          /\ component_type \in DOMAIN handlers
          /\ component_type \notin DOMAIN instances
          /\ LET r == ComponentRegistry_get_handler(Registry, component_type)
             IN /\ handlers' = r.handlers
                /\ instances' = r.instances
                /\ reg_made' = r.made
    /\ UNCHANGED <<reg_log, langVars, handlerVars, orchVars>>

\* registry.py 67-84, before an invocation of call_model
unregister_handler ==
    /\ pc = "start"
    /\ \E component_type \in RegistryTypes :
          /\ component_type \in DOMAIN handlers
          /\ LET r == ComponentRegistry_unregister_handler(Registry,
                                                           component_type)
             IN /\ handlers' = r.handlers
                /\ instances' = r.instances
                /\ reg_made' = r.made
    /\ UNCHANGED <<reg_log, langVars, handlerVars, orchVars>>

\* graph.py 598-725: the language of the latest message, then the client.
\* ChatOpenAI(...) is built outside the try block of line 727; it raises
\* when no credential is configured.
Prepare ==
    /\ pc = "start"
    /\ user_language' = call_model_language(messages)
    /\ \E client_built \in BOOLEAN :
          pc' = IF client_built THEN "ready" ELSE "raised"
    /\ UNCHANGED <<messages, response, tc, tool_messages, returned, ui, uuid,
                   executed, model_calls, error, owner, langVars, handlerVars,
                   regVars>>

\* an apology that leaves the error text out
ModelRaises_without_error_text ==
    /\ pc = "ready"
    /\ model_calls' = model_calls + 1
    /\ \E e \in ModelErrors :
          /\ error' = e
          /\ returned' = <<AIMessage(<<"uuid", uuid + 1>>, <<ApologyPrefix>>, <<>>)>>
    /\ uuid' = uuid + 1
    /\ pc' = "done"
    /\ UNCHANGED <<messages, user_language, response, tc, tool_messages, ui,
                   executed, owner, langVars, handlerVars, regVars>>

\* graph.py 729, 790-796: llm.ainvoke raises
ModelRaises ==
    /\ pc = "ready"
    /\ model_calls' = model_calls + 1
    /\ \E e \in ModelErrors :
          /\ error' = e
          /\ returned' = <<AIMessage(<<"uuid", uuid + 1>>, <<ApologyPrefix, e>>, <<>>)>>
    /\ uuid' = uuid + 1
    /\ pc' = "done"
    /\ UNCHANGED <<messages, user_language, response, tc, tool_messages, ui,
                   executed, owner, langVars, handlerVars, regVars>>

\* the direct answer copied into a new message instead of being returned
ModelAnswers_copied ==
    /\ pc = "ready"
    /\ model_calls' = model_calls + 1
    /\ \E r \in Responses :
          /\ r.tool_calls = <<>>
          /\ response' = r
          /\ returned' = <<AIMessage(<<"uuid", uuid + 1>>, r.content, <<>>)>>
    /\ pc' = "done"
    /\ UNCHANGED <<messages, user_language, tc, tool_messages, ui, uuid,
                   executed, error, owner, langVars, handlerVars, regVars>>

\* graph.py 729-732, 786-788: a response without tool calls
ModelAnswers ==
    /\ pc = "ready"
    /\ model_calls' = model_calls + 1
    /\ \E r \in Responses :
          /\ r.tool_calls = <<>>
          /\ response' = r
          /\ returned' = <<r>>
    /\ pc' = "done"
    /\ UNCHANGED <<messages, user_language, tc, tool_messages, ui, uuid,
                   executed, error, owner, langVars, handlerVars, regVars>>

\* graph.py 729-734: a response with tool calls
ModelCallsTools ==
    /\ pc = "ready"
    /\ model_calls' = model_calls + 1
    /\ \E r \in Responses :
          /\ r.tool_calls # <<>>
          /\ response' = r
    /\ tool_messages' = <<>>
    /\ pc' = "tools"
    /\ UNCHANGED <<messages, user_language, tc, returned, ui, uuid,
                   executed, error, owner, langVars, handlerVars, regVars>>

\* the messages of a tool call put in front of the earlier ones
Iterate_prepend(outcome, ran, push_fail) ==
    LET tool_call == response.tool_calls[tc + 1]
        step == process_tool_call(tool_call, outcome, uuid, push_fail, error)
    IN /\ tool_messages' = step.msgs \o tool_messages
       /\ owner' = [i \in 1..Len(step.msgs) |-> tc + 1] \o owner
       /\ error' = step.error
       /\ ui' = ui \o step.ui
       /\ uuid' = uuid + step.uuids
       /\ executed' = IF ran
                      THEN Append(executed, [index |-> tc + 1, name |-> tool_call.name,
                                              language |-> user_language,
                                              push_fail |-> push_fail])
                      ELSE executed
       /\ tc' = tc + 1
       /\ UNCHANGED <<pc, messages, user_language, response, returned,
                      model_calls, langVars, handlerVars, regVars>>

\* a loop that an error of one tool call ends
Iterate_abort_on_error(outcome, ran, push_fail) ==
    LET tool_call == response.tool_calls[tc + 1]
        step == process_tool_call(tool_call, outcome, uuid, push_fail, error)
    IN /\ tool_messages' = tool_messages \o step.msgs
       /\ owner' = owner \o [i \in 1..Len(step.msgs) |-> tc + 1]
       /\ error' = step.error
       /\ ui' = ui \o step.ui
       /\ uuid' = uuid + step.uuids
       /\ executed' = IF ran
                      THEN Append(executed, [index |-> tc + 1, name |-> tool_call.name,
                                              language |-> user_language,
                                              push_fail |-> push_fail])
                      ELSE executed
       /\ tc' = IF step.error # error THEN Len(response.tool_calls) ELSE tc + 1
       /\ UNCHANGED <<pc, messages, user_language, response, returned,
                      model_calls, langVars, handlerVars, regVars>>

\* graph.py 736-781: the iteration for tool call number tc + 1, whose
\* capability function (if one ran) returned outcome
Iterate(outcome, ran, push_fail) ==
    LET tool_call == response.tool_calls[tc + 1]
        step == process_tool_call(tool_call, outcome, uuid, push_fail, error)
    IN /\ tool_messages' = tool_messages \o step.msgs
       /\ owner' = owner \o [i \in 1..Len(step.msgs) |-> tc + 1]
       /\ error' = step.error
       /\ ui' = ui \o step.ui
       /\ uuid' = uuid + step.uuids
       /\ executed' = IF ran
                      THEN Append(executed, [index |-> tc + 1, name |-> tool_call.name,
                                              language |-> user_language,
                                              push_fail |-> push_fail])
                      ELSE executed
       /\ tc' = tc + 1
       /\ UNCHANGED <<pc, messages, user_language, response, returned,
                      model_calls, langVars, handlerVars, regVars>>

NextToolIs(names) ==
    /\ pc = "tools" /\ tc < Len(response.tool_calls)
    /\ response.tool_calls[tc + 1].name \in names

ExecuteWeather ==
    /\ NextToolIs({"get_weather_data"})
    /\ LET args == response.tool_calls[tc + 1].args
       IN IF "city" \in DOMAIN args
          THEN \E wenv \in WeatherOutcomes, push_fail \in 0..1 :
                  Iterate(get_weather_data(args.city, user_language, wenv),
                          TRUE, push_fail)
          ELSE Iterate(NoOut, FALSE, 0)

ExecuteTodo ==
    /\ NextToolIs({"get_todo_data"})
    /\ LET args == response.tool_calls[tc + 1].args
       IN IF "request" \in DOMAIN args
          THEN \E completion \in TodoOutcomes, push_fail \in 0..1 :
                  Iterate(get_todo_data(args.request, user_language, completion),
                          TRUE, push_fail)
          ELSE Iterate(NoOut, FALSE, 0)

ExecuteVideoEditing ==
    /\ NextToolIs({"get_video_editing_data"})
    /\ LET args == response.tool_calls[tc + 1].args
       IN IF "request" \in DOMAIN args
          THEN \E completion \in VideoOutcomes, push_fail \in 0..1 :
                  Iterate(get_video_editing_data(args.request, user_language,
                                                 completion),
                          TRUE, push_fail)
          ELSE Iterate(NoOut, FALSE, 0)

ExecuteUnknown ==
    /\ pc = "tools" /\ tc < Len(response.tool_calls)
    /\ response.tool_calls[tc + 1].name \notin KnownTools
    /\ Iterate(NoOut, FALSE, 0)

\* graph.py 784
ReturnMessages ==
    /\ pc = "tools" /\ tc = Len(response.tool_calls)
    /\ returned' = <<response>> \o tool_messages
    /\ pc' = "done"
    /\ UNCHANGED <<messages, user_language, response, tc, tool_messages, ui,
                   uuid, executed, model_calls, error, owner, langVars,
                   handlerVars, regVars>>

Next ==
    \/ register_handler \/ get_handler \/ unregister_handler
    \/ Prepare
    \/ ModelRaises \/ ModelAnswers \/ ModelCallsTools
    \/ ExecuteWeather \/ ExecuteTodo \/ ExecuteVideoEditing \/ ExecuteUnknown
    \/ ReturnMessages

Spec == Init /\ [][Next]_vars

(***************************************************************************)
(* Properties of the handlers (SpecHandlers).                              *)
(***************************************************************************)
IsResult(out) ==
    /\ ~out.raised
    /\ DOMAIN out.val = {"result", "ui_components"}

\* C1: WeatherHandler, TodoHandler and VideoEditingHandler process_request
\* never raise: whatever the request, the language tag and the outcomes of
\* the completion and weather services, the call returns a result dictionary.
C1_NeverRaises == h_pc = "returned" => IsResult(h_out)

\* the weather handler returned although both completions and the weather
\* lookup failed
C1_Witness ==
    /\ h_pc = "returned" /\ h_handler = "weather"
    /\ h_env.c1.kind = "raise" /\ h_env.c2.kind = "raise" /\ ~h_env.api_key
    /\ IsResult(h_out)

text_nonempty(s) == \E i \in 1..Len(s) : s[i] # ""

component_tag ==
    [weather |-> "weather", todo |-> "todo", video_editing |-> "videoEditingTodo"]

\* C2: on every path the returned result has a non-empty text and at least
\* one UI component, and every component carries the handler's own tag
\* (weather, todo, videoEditingTodo).
C2_TextAndComponent ==
    h_pc = "returned" /\ ~h_out.raised =>
        /\ text_nonempty(h_out.val.result)
        /\ Len(h_out.val.ui_components) >= 1
        /\ \A i \in 1..Len(h_out.val.ui_components) :
              h_out.val.ui_components[i].type = component_tag[h_handler]

\* the todo handler's total-failure fallback and the video handler's parser
\* fallback both returned such a result
C2_Witness ==
    /\ h_pc = "returned" /\ ~h_out.raised
    /\ \/ h_handler = "todo" /\ h_env.c1.kind = "raise"
       \/ h_handler = "video_editing" /\ h_env.c1.kind = "nonstr"
    /\ text_nonempty(h_out.val.result)
    /\ Len(h_out.val.ui_components) = 1
    /\ h_out.val.ui_components[1].type = component_tag[h_handler]

(***************************************************************************)
(* Properties of detect_language (SpecLang).                               *)
(***************************************************************************)
HasKana(t) == \E i \in 1..Len(t) : t[i] >= HiraganaLo /\ t[i] <= KatakanaHi
HasIdeograph(t) == \E i \in 1..Len(t) : t[i] >= CJKLo /\ t[i] <= CJKHi

ExpectedLanguage(t) ==
    IF HasKana(t) THEN "ja" ELSE IF HasIdeograph(t) THEN "zh" ELSE "en"

\* C10: detect_language (utils/language.py and graph.py) is total and
\* ordered: ja if the text has any Hiragana/Katakana character, otherwise zh
\* if it has any CJK Unified Ideograph, otherwise en; kana mixed with
\* ideographs gives ja and the empty text gives en.
C10_DetectLanguage ==
    lang # NoLang =>
        /\ lang.utils = ExpectedLanguage(text)
        /\ lang.graph = ExpectedLanguage(text)
        /\ (text = <<>> => lang.utils = "en" /\ lang.graph = "en")

\* an ideograph followed by a kana character was detected as ja
C10_Witness ==
    /\ Len(text) = 2 /\ HasIdeograph(<<text[1]>>) /\ HasKana(<<text[2]>>)
    /\ lang = [utils |-> "ja", graph |-> "ja"]

(***************************************************************************)
(* Properties of call_model (Spec).                                        *)
(***************************************************************************)
\* the messages call_model has for its caller: the returned list, and
\* before the return the response with the messages collected so far
Msgs == IF pc = "done" THEN returned ELSE <<response>> \o tool_messages

Responded == response # NoResponse
NumCalls == Len(response.tool_calls)

\* the AI messages appended for UI components: those after the response
ComponentMessages == {i \in 2..Len(Msgs) : Msgs[i].type = "ai"}

\* C3: every invocation of call_model returns normally and appends at
\* least one message, whatever the input state.
C3_ReturnsAtLeastOne ==
    /\ pc # "raised"
    /\ pc = "done" => Len(returned) >= 1

\* C4: UI components and their messages stay in lockstep: every emitted
\* component is keyed to a distinct AI message present in the message list,
\* and every AI message appended for a component has exactly one component.
C4_Lockstep ==
    /\ \A k \in 1..Len(ui) :
          \E i \in ComponentMessages : Msgs[i].id = ui[k].message_id
    /\ \A k1, k2 \in 1..Len(ui) :
          k1 # k2 => ui[k1].message_id # ui[k2].message_id
    /\ \A i, j \in ComponentMessages : i # j => Msgs[i].id # Msgs[j].id
    /\ \A i \in ComponentMessages :
          Cardinality({k \in 1..Len(ui) : ui[k].message_id = Msgs[i].id}) = 1

\* two tool calls each emitted a component, and both messages were returned
C4_Witness ==
    /\ pc = "done" /\ Len(ui) = 2
    /\ Cardinality(ComponentMessages) = 2
    /\ \A k \in 1..2 : \E i \in ComponentMessages : returned[i].id = ui[k].message_id

\* C5: a response without tool invocations is returned as the only message:
\* no acknowledgement, no handler executed, no UI component.
C5_DirectResponse ==
    pc = "done" /\ Responded /\ response.tool_calls = <<>> =>
        /\ returned = <<response>>
        /\ tool_messages = <<>> /\ ui = <<>> /\ executed = <<>>

\* the model's greeting came back as the only message
C5_Witness ==
    /\ pc = "done" /\ Responded /\ response.tool_calls = <<>>
    /\ response.content # <<>>
    /\ returned = <<response>>

\* C6: tool invocations t1..tn are executed one at a time in order, and the
\* returned list is the response followed, for i = 1..n in order, by the
\* acknowledgement of ti and then the UI messages of ti.
C6_InvocationOrder ==
    pc = "done" /\ Responded /\ NumCalls > 0 =>
        /\ Len(returned) = Len(owner) + 1
        /\ returned[1] = response
        /\ \A j \in 1..(Len(owner) - 1) : owner[j] <= owner[j + 1]
        /\ \A i \in 1..NumCalls :
              /\ \E j \in 1..Len(owner) : owner[j] = i
              /\ LET first == CHOOSE j \in 1..Len(owner) :
                                /\ owner[j] = i
                                /\ \A m \in 1..(j - 1) : owner[m] # i
                 IN /\ returned[first + 1].type = "tool"
                    /\ returned[first + 1].tool_call_id = response.tool_calls[i].id
        /\ \A j \in 1..Len(owner) :
              returned[j + 1].type = "tool" =>
                  returned[j + 1].tool_call_id = response.tool_calls[owner[j]].id
        /\ \A a, b \in 1..Len(executed) :
              a < b => executed[a].index < executed[b].index
        /\ \A a \in 1..Len(executed) :
              executed[a].name = response.tool_calls[executed[a].index].name

\* two invocations, each with its acknowledgement and its UI message
C6_Witness ==
    /\ pc = "done" /\ Responded /\ NumCalls = 2
    /\ owner = <<1, 1, 2, 2>>
    /\ Len(returned) = 5
    /\ returned[2].type = "tool" /\ returned[3].type = "ai"
    /\ returned[4].type = "tool" /\ returned[5].type = "ai"
    /\ Len(executed) = 2

\* C7: an invocation of an unknown tool gets an acknowledgement holding
\* "Unknown tool:" and the name, emits no UI component and does not raise, and
\* the other invocations of the turn are still processed.
C7_UnknownTool ==
    /\ pc = "raised" => ~Responded
    /\ pc = "done" /\ Responded =>
          \A i \in 1..NumCalls :
              response.tool_calls[i].name \notin KnownTools =>
                  /\ Cardinality({j \in 1..Len(owner) : owner[j] = i}) = 1
                  /\ \A j \in 1..Len(owner) :
                        owner[j] = i =>
                            returned[j + 1] =
                                ToolMessage(<<"Unknown tool:", " ",
                                              response.tool_calls[i].name>>,
                                            response.tool_calls[i].id)
                  /\ \A a \in 1..Len(executed) : executed[a].index # i
                  /\ \A m \in 1..NumCalls : \E j \in 1..Len(owner) : owner[j] = m

\* an unknown tool was acknowledged and the weather call after it still ran
C7_Witness ==
    /\ pc = "done" /\ Responded /\ NumCalls = 2
    /\ response.tool_calls[1].name = "get_stock_price"
    /\ response.tool_calls[2].name = "get_weather_data"
    /\ returned[2].content = <<"Unknown tool:", " ", "get_stock_price">>
    /\ Len(ui) = 1 /\ Len(executed) = 1

\* the registry's component type of a capability function
capability_type ==
    [get_weather_data |-> "weather", get_todo_data |-> "todo",
     get_video_editing_data |-> "video_editing"]

\* C8: the orchestrator resolves the handler of each invocation through the
\* registry; when the lookup of a known capability returns nothing, it
\* appends the acknowledgement "Handler not found for {type}" and runs no
\* handler.
C8_HandlerLookup ==
    pc = "done" /\ Responded =>
        \A i \in 1..NumCalls :
            (/\ response.tool_calls[i].name \in KnownTools
             /\ capability_type[response.tool_calls[i].name] \notin DOMAIN handlers)
            => /\ \A a \in 1..Len(executed) : executed[a].index # i
               /\ \A j \in 1..Len(owner) :
                     owner[j] = i =>
                         returned[j + 1].content =
                             <<"Handler not found for ",
                               capability_type[response.tool_calls[i].name]>>

\* C9: when the model call raises, exactly one message is returned, an AI
\* apology holding the error text; no tool runs, nothing is acknowledged and
\* no UI component is emitted.
C9_Apology ==
    pc = "done" /\ ~Responded =>
        /\ Len(returned) = 1
        /\ returned[1].type = "ai"
        /\ returned[1].content = <<ApologyPrefix, error>>
        /\ error \in ModelErrors
        /\ tool_messages = <<>> /\ ui = <<>> /\ executed = <<>>
        /\ model_calls = 1

\* the model call failed with a connection error
C9_Witness ==
    /\ pc = "done" /\ ~Responded /\ error = "Connection error."
    /\ returned[1].content = <<ApologyPrefix, "Connection error.">>

\* the latest message of the user in a history, <<>> when there is none
RECURSIVE latest_user_message(_)
latest_user_message(history) ==
    IF history = <<>> THEN <<>>
    ELSE IF history[Len(history)].type = "human"
    THEN <<history[Len(history)]>>
    ELSE latest_user_message(SubSeq(history, 1, Len(history) - 1))

\* the text the language is to be detected on: the plain text, or the first
\* text item of a list of blocks, or the empty text
user_text(history) ==
    IF latest_user_message(history) = <<>> THEN <<>>
    ELSE LET content == latest_user_message(history)[1].content
         IN IF content.kind = "list" THEN first_text(content.v) ELSE content.v

\* C11: the language tag call_model passes to every handler of a turn is
\* the detected language of the latest user message of the conversation: of
\* its text when the content is plain text, of its first text block when
\* the content is a list of blocks, and en when there is no text.
C11_LanguageOfLatestUserMessage ==
    \A a \in 1..Len(executed) :
        executed[a].language = ExpectedLanguage(user_text(messages))

(***************************************************************************)
(* Properties of the response templates (SpecTemplates).                   *)
(***************************************************************************)
\* the variant the lookup order names: (key, language), else (key, en),
\* else the empty text
ExpectedTemplate(templates, template_key, language) ==
    IF template_key \notin DOMAIN templates THEN <<>>
    ELSE IF language \in DOMAIN templates[template_key]
    THEN templates[template_key][language]
    ELSE templates[template_key]["en"]

\* C12: formatting uses the template of (templateKey, language), the
\* (templateKey, en) variant when the language has none and the empty text
\* when the key is unknown, and a language tag outside {en, zh, ja} never
\* makes it fail; this for format_response of utils/language.py and for
\* the formatting of graph.py.
C12_TemplateLookup ==
    ~template_out.raised =>
        LET c == template_call
            out == template_out.val
        IN /\ out.template =
                  ExpectedTemplate(RESPONSE_TEMPLATES, c.template_key, c.language)
           /\ ~out.utils.raised
           /\ out.utils.val = substitute(out.template, c.kwargs)
           /\ c.template_key \in DOMAIN graph_RESPONSE_TEMPLATES =>
                 /\ ~out.graph.raised
                 /\ out.graph.val =
                       substitute(ExpectedTemplate(graph_RESPONSE_TEMPLATES,
                                                   c.template_key, c.language),
                                  c.kwargs)

\* the same lookup order for format_response of utils/language.py alone
FormatResponseLookup ==
    ~template_out.raised =>
        LET c == template_call
            out == template_out.val
        IN /\ out.template =
                  ExpectedTemplate(RESPONSE_TEMPLATES, c.template_key, c.language)
           /\ ~out.utils.raised
           /\ out.utils.val = substitute(out.template, c.kwargs)

(***************************************************************************)
(* Properties of the registry (SpecRegistry).                              *)
(***************************************************************************)
\* a register or unregister of id strictly between calls i and j
Reregistered(id, i, j) ==
    \E k \in (i + 1)..(j - 1) :
        /\ reg_log[k].op \in {"register", "unregister"}
        /\ reg_log[k].component_type = id

IsCall(k, op, id) == reg_log[k].op = op /\ reg_log[k].component_type = id

\* the registry before call k
HandlersBefore(k) == IF k = 1 THEN DefaultHandlers ELSE reg_log[k - 1].handlers
InstancesBefore(k) == IF k = 1 THEN EmptyDict ELSE reg_log[k - 1].instances

\* the instance call j returned was never returned or cached before call j
NewlyConstructed(j) ==
    \A k \in 1..(j - 1) :
        /\ reg_log[k].instance # reg_log[j].instance
        /\ \A t \in DOMAIN reg_log[k].instances :
              reg_log[k].instances[t] # reg_log[j].instance

\* C13: get(id) calls with no register(id) or unregister(id) between them
\* return the same handler instance, and the first get(id) after
\* register(id, factory) returns a newly constructed instance of that
\* factory, never an instance cached before the register.
C13_RegistryCaching ==
    \A i, j \in 1..Len(reg_log) :
        i < j =>
          \A id \in ComponentTypes :
            /\ (IsCall(i, "get", id) /\ IsCall(j, "get", id)
                    /\ ~Reregistered(id, i, j))
               => reg_log[i].instance = reg_log[j].instance
            /\ (IsCall(i, "register", id) /\ IsCall(j, "get", id)
                    /\ ~Reregistered(id, i, j)
                    /\ ~\E k \in (i + 1)..(j - 1) : IsCall(k, "get", id))
               => /\ reg_log[j].instance # NoInstance
                  /\ reg_log[j].instance.cls = reg_log[i].handler_class
                  /\ NewlyConstructed(j)

\* weather was looked up, registered again with another class, and looked
\* up twice: the two later lookups gave one new instance of the new class
C13_Witness ==
    /\ Len(reg_log) = 4
    /\ IsCall(1, "get", "weather") /\ IsCall(2, "register", "weather")
    /\ IsCall(3, "get", "weather") /\ IsCall(4, "get", "weather")
    /\ reg_log[1].instance = [cls |-> "WeatherHandler", id |-> 1]
    /\ reg_log[2].handler_class = "ChartHandler"
    /\ reg_log[3].instance = [cls |-> "ChartHandler", id |-> 2]
    /\ reg_log[4].instance = reg_log[3].instance

\* C14: unregister(id) returns true exactly when id was registered; after
\* it get(id) returns no handler and list() does not contain id until id is
\* registered again; unregister of an id that is not registered returns
\* false and leaves the handlers and cached instances of all ids unchanged.
C14_Unregister ==
    /\ \A i \in 1..Len(reg_log) :
          \A id \in ComponentTypes :
            IsCall(i, "unregister", id) =>
              /\ reg_log[i].removed = (id \in DOMAIN HandlersBefore(i))
              /\ id \notin DOMAIN HandlersBefore(i) =>
                    /\ reg_log[i].handlers = HandlersBefore(i)
                    /\ reg_log[i].instances = InstancesBefore(i)
    /\ \A i, j \in 1..Len(reg_log) :
          i < j =>
            \A id \in ComponentTypes :
              (/\ IsCall(i, "unregister", id)
               /\ ~\E k \in (i + 1)..(j - 1) : IsCall(k, "register", id))
              => /\ IsCall(j, "get", id) => reg_log[j].instance = NoInstance
                 /\ reg_log[j].op = "list" => id \notin DOMAIN reg_log[j].listed

\* weather was unregistered (true); then the lookup gave nothing, the list
\* lacked it and a second unregister returned false
C14_Witness ==
    /\ Len(reg_log) = 4
    /\ IsCall(1, "unregister", "weather") /\ reg_log[1].removed
    /\ IsCall(2, "get", "weather") /\ reg_log[2].instance = NoInstance
    /\ reg_log[3].op = "list" /\ "weather" \notin DOMAIN reg_log[3].listed
    /\ IsCall(4, "unregister", "weather") /\ ~reg_log[4].removed
    /\ reg_log[4].handlers = reg_log[3].handlers

(***************************************************************************)
(* Properties of the weather fallback.                                     *)
(***************************************************************************)
\* the four arguments of the weather templates, taken from weather data
WeatherTextArguments(data) ==
    [c \in {"{city}", "{temperature}", "{condition}", "{description}"} |->
        CASE c = "{city}" -> data.city
          [] c = "{temperature}" -> data.temperature
          [] c = "{condition}" -> data.condition
          [] OTHER -> data.description]

\* the fixed fallback values of a weather component
IsFallbackWeather(data) ==
    /\ data.temperature = <<"72", "<deg>F">>
    /\ data.condition = <<"Partly Cloudy">>
    /\ data.humidity = <<"65", "%">>
    /\ data.windSpeed = <<"8", " mph">>
    /\ data.icon = <<"icon:sun-behind-cloud">>
    /\ data.gradient = <<"linear-gradient(135deg, #74b9ff 0%, #0984e3 100%)">>

\* a step of the weather handler failed: the city extraction, the fetch or
\* the formatting of the fetched document
WeatherStepFailed(env, language) ==
    \/ env.c1.kind = "raise"
    \/ ~env.api_key
    \/ env.http # "ok"
    \/ WeatherHandler_format_weather_data(
           env.doc, WeatherHandler_extract_city_with_openai(env.c1),
           language).raised

\* the city a completion names, <<>> when none could be extracted
ExtractedCity(completion) ==
    IF completion.kind = "str" THEN strip(completion.content) ELSE <<>>

\* C15: when the city extraction, the weather fetch or the formatting of
\* the fetched document fails, the weather handler returns exactly one
\* weather component with the fixed fallback data (72<deg>F, Partly Cloudy,
\* 65%, 8 mph, cloudy icon and gradient) and the text of template
\* weather_fallback; the city of both is "San Francisco" whenever no city
\* could be extracted.
C15_WeatherFallback ==
    (/\ h_pc = "returned" /\ h_handler = "weather"
     /\ WeatherStepFailed(h_env, h_language))
    => /\ IsResult(h_out)
       /\ Len(h_out.val.ui_components) = 1
       /\ LET component == h_out.val.ui_components[1]
          IN /\ component.type = "weather"
             /\ IsFallbackWeather(component.data)
             /\ ExtractedCity(h_env.c2) = <<>> => component.data.city = SanFrancisco
             /\ h_out.val.result =
                   substitute(ExpectedTemplate(RESPONSE_TEMPLATES,
                                               "weather_fallback", h_language),
                              WeatherTextArguments(component.data))

\* the same for get_weather_data of graph.py, which call_model runs: a
\* weather invocation whose fetch or formatting failed
GraphWeatherFallback ==
    \A k \in 1..Len(ui) :
        (ui[k].name = "weather"
         /\ ui[k].props.description =
               <<"Weather data unavailable, showing sample data">>)
        => /\ IsFallbackWeather(ui[k].props)
           /\ ui[k].props.city # <<>>

(***************************************************************************)
(* Properties of two calls of a handler (SpecFallback).                    *)
(***************************************************************************)
\* the handler's service failed during a call: the weather service for the
\* weather handler, the completion for the other two
AdapterFailed(handler, env) ==
    IF handler = "weather" THEN ~env.api_key \/ env.http # "ok"
    ELSE env.c1.kind = "raise"

\* the completions of the city extraction were alike in both calls
SameCompletions(env1, env2) == env1.c1 = env2.c1 /\ env1.c2 = env2.c2

IsFormatted(data, doc, city) ==
    LET current == doc.v.current.v
    IN /\ data.city = city
       /\ data.condition = current.condition.v.text.v
       /\ data.temperature = current.temp_f.v \o <<"<deg>F">>
       /\ data.humidity = current.humidity.v \o <<"%">>
       /\ data.windSpeed = current.wind_mph.v \o <<" mph">>
       /\ data.condition = <<"S", "u", "n", "n", "y">> =>
             /\ data.icon = <<"icon:sun">>
             /\ data.description = <<"Clear and sunny">>

\* C17: weather formatting of a provider document and a city returns the
\* city and the condition text unchanged, temp_f followed by <deg>F, the
\* humidity followed by % and wind_mph followed by " mph"; for "Sunny" the
\* icon is the sun and the description mentions sunny or clear.
C17_WeatherFormat ==
    (/\ h_pc = "returned" /\ h_handler = "weather"
     /\ h_env.api_key /\ h_env.http = "ok"
     /\ h_env.doc \in {WeatherDoc(c) : c \in ConditionTexts})
    => /\ IsResult(h_out)
       /\ IsFormatted(h_out.val.ui_components[1].data, h_env.doc,
                      WeatherHandler_extract_city_with_openai(h_env.c1))

\* the same for format_weather_data of graph.py: every weather component
\* call_model emitted from the fetched document
GraphWeatherFormat ==
    \A k \in 1..Len(ui) :
        (ui[k].name = "weather"
         /\ ui[k].props.description #
               <<"Weather data unavailable, showing sample data">>)
        => IsFormatted(ui[k].props, WeatherDoc(<<"S", "u", "n", "n", "y">>), City)

(***************************************************************************)
(* Properties of the todo parsing.                                         *)
(***************************************************************************)
\* a line with a leading - or * bullet: the marker after optional
\* indentation, then white space, then the text
IsBulletLine(line) ==
    \E b \in 1..Len(line) :
        /\ \A i \in 1..(b - 1) : line[i] \in Whitespace
        /\ line[b] \in {"-", "*"}
        /\ b + 2 <= Len(line)
        /\ line[b + 1] \in Whitespace

\* the line stripped of its bullet
BulletText(line) ==
    LET b == CHOOSE b \in 1..Len(line) :
                 /\ \A i \in 1..(b - 1) : line[i] \in Whitespace
                 /\ line[b] \in {"-", "*"}
    IN strip(SubSeq(line, b + 1, Len(line)))

\* the bullet lines of a document stripped of their bullets, in order
RECURSIVE BulletTexts(_)
BulletTexts(lines) ==
    IF lines = <<>> THEN <<>>
    ELSE (IF IsBulletLine(Head(lines)) THEN <<BulletText(Head(lines))>> ELSE <<>>)
         \o BulletTexts(Tail(lines))

\* a line that holds "Title:" with text after it
IsTitleLine(line) ==
    \E q \in 1..Len(line) : line[q] = "Title:" /\ q < Len(line)

TextAfterTitle(line) ==
    LET q == CHOOSE q \in 1..Len(line) :
                 /\ line[q] = "Title:"
                 /\ \A r \in 1..(q - 1) : line[r] # "Title:"
    IN strip(SubSeq(line, q + 1, Len(line)))

\* the text after "Title:" on the first title line, else "Task Plan"
RECURSIVE TitleOf(_)
TitleOf(lines) ==
    IF lines = <<>> THEN <<"Task Plan">>
    ELSE IF IsTitleLine(Head(lines)) THEN TextAfterTitle(Head(lines))
    ELSE TitleOf(Tail(lines))

\* C18: todo parsing of a string completion: the title is the text after
\* "Title:" and is "Task Plan" when no such line exists; the tasks are
\* exactly the lines with a leading - or * bullet, stripped of the bullet,
\* in document order; lines without a bullet never become tasks.
C18_TodoParse ==
    (/\ h_pc = "returned" /\ h_handler = "todo" /\ h_env.c1.kind = "str")
    => LET lines == split_lines(h_env.c1.content)
           data == h_out.val.ui_components[1].data
       IN /\ IsResult(h_out)
          /\ data.title = TitleOf(lines)
          /\ BulletTexts(lines) # <<>> => data.tasks = BulletTexts(lines)
          /\ BulletTexts(lines) = <<>> => data.tasks = GenericTasks

\* the part of C18 about the tasks alone
TodoTasksAreBullets ==
    (/\ h_pc = "returned" /\ h_handler = "todo" /\ h_env.c1.kind = "str")
    => LET lines == split_lines(h_env.c1.content)
           data == h_out.val.ui_components[1].data
       IN /\ BulletTexts(lines) # <<>> => data.tasks = BulletTexts(lines)
          /\ BulletTexts(lines) = <<>> => data.tasks = GenericTasks

\* the part of C18 about the title when no "Title:" line is left without
\* text after it
TodoTitleOfTitleLine ==
    (/\ h_pc = "returned" /\ h_handler = "todo" /\ h_env.c1.kind = "str"
     /\ \A i \in 1..Len(h_env.c1.content) :
           h_env.c1.content[i] = "Title:" =>
               /\ i < Len(h_env.c1.content)
               /\ h_env.c1.content[i + 1] # "\n")
    => h_out.val.ui_components[1].data.title
          = TitleOf(split_lines(h_env.c1.content))

\* the success text of a todo plan, stating the title and the count
TodoSuccessText(language, title, count) ==
    substitute(ExpectedTemplate(RESPONSE_TEMPLATES, "todo_success", language),
               [c \in {"{title}", "{count}"} |->
                   IF c = "{title}" THEN title ELSE <<ToString(count)>>])

\* C19: the tasks list of every todo component emitted is never empty: a
\* completion with bullets gives those bullets, one without a bullet line
\* or a non-string completion gives the fixed 4-item generic list, a failed
\* completion call gives the fixed "General Plan" with its 4 tasks; the
\* count stated in the success text is the length of the emitted list.
C19_TodoTasksNeverEmpty ==
    (h_pc = "returned" /\ h_handler = "todo")
    => /\ IsResult(h_out)
       /\ Len(h_out.val.ui_components) = 1
       /\ LET data == h_out.val.ui_components[1].data
              completion == h_env.c1
              bullets == IF completion.kind = "str"
                         THEN BulletTexts(split_lines(completion.content))
                         ELSE <<>>
          IN /\ Len(data.tasks) >= 1
             /\ completion.kind = "raise" =>
                   /\ data.title = <<"General Plan">>
                   /\ data.tasks = << <<"Analyze the request">>,
                                      <<"Plan your approach">>,
                                      <<"Take action">>, <<"Review results">> >>
             /\ completion.kind # "raise" =>
                   /\ bullets # <<>> => data.tasks = bullets
                   /\ bullets = <<>> =>
                         /\ Len(data.tasks) = 4
                         /\ data.tasks = << <<"Analyze requirements">>,
                                            <<"Create action plan">>,
                                            <<"Execute key steps">>,
                                            <<"Review progress">> >>
                   /\ h_out.val.result =
                         TodoSuccessText(h_language, data.title, Len(data.tasks))

\* a completion of two lines without a bullet gave the generic list and a
\* success text stating 4
C19_Witness ==
    /\ h_pc = "returned" /\ h_handler = "todo" /\ h_language = "zh"
    /\ h_env.c1 = CompletionText(<<"Tasks:", "\n", "-", "no space">>)
    /\ Len(h_out.val.ui_components[1].data.tasks) = 4
    /\ h_out.val.result =
          TodoSuccessText("zh", <<"Task Plan">>, 4)

(***************************************************************************)
(* Properties of the video-editing tasks.                                  *)
(***************************************************************************)
\* the k-th task of the list has the id prefix_k and is not completed
SequentialIds(tasks, prefix) ==
    /\ \A k \in 1..Len(tasks) :
          /\ tasks[k].id = <<prefix, ToString(k)>>
          /\ tasks[k].completed = FALSE
    /\ \A k1, k2 \in 1..Len(tasks) : k1 # k2 => tasks[k1].id # tasks[k2].id

\* C20: in every video-editing component emitted (JSON path, heuristic
\* path, empty-list substitution, total-failure fallback) the k-th task of
\* subtractionTasks has id sub_k and the k-th task of additionTasks has id
\* add_k, counting from 1, so ids are unique within their own list, and
\* every task has completed = false.
C20_VideoTaskIds ==
    (h_pc = "returned" /\ h_handler = "video_editing")
    => /\ IsResult(h_out)
       /\ \A c \in 1..Len(h_out.val.ui_components) :
             /\ Len(h_out.val.ui_components[c].data.subtractionTasks) >= 1
             /\ Len(h_out.val.ui_components[c].data.additionTasks) >= 1
             /\ SequentialIds(h_out.val.ui_components[c].data.subtractionTasks,
                              "sub_")
             /\ SequentialIds(h_out.val.ui_components[c].data.additionTasks,
                              "add_")

\* a JSON document with five subtraction tasks and one addition task
C20_Witness ==
    /\ h_pc = "returned" /\ h_handler = "video_editing"
    /\ h_env.c1 = CompletionText(<<"doc_five">>)
    /\ Len(h_out.val.ui_components[1].data.subtractionTasks) = 5
    /\ h_out.val.ui_components[1].data.subtractionTasks[5].id = <<"sub_", "5">>
    /\ h_out.val.ui_components[1].data.additionTasks[1].id = <<"add_", "1">>

\* the same for the components call_model emits from get_video_editing_data
GraphVideoTaskIds ==
    \A k \in 1..Len(ui) :
        ui[k].name = "videoEditingTodo" =>
            /\ SequentialIds(ui[k].props.subtractionTasks, "sub_")
            /\ SequentialIds(ui[k].props.additionTasks, "add_")

(***************************************************************************)
(* Properties of the video-editing plan.                                   *)
(***************************************************************************)
\* the lists as parsed from the completion of the call, before substitution
ParsedVideo == VideoEditingHandler_parse(h_env.c1)

VideoPlanReturned ==
    /\ h_pc = "returned" /\ h_handler = "video_editing"
    /\ h_env.c1.kind # "raise"

VideoData == h_out.val.ui_components[1].data

\* C21: whenever a video-editing task list comes from the completion (it is
\* not a substituted or a fallback list), that list of the emitted
\* component has between 2 and 4 entries, whatever number of entries the
\* completion contained.
C21_TwoToFourTasks ==
    VideoPlanReturned =>
        /\ ParsedVideo.sub # <<>>
              => Len(VideoData.subtractionTasks) \in 2..4
        /\ ParsedVideo.add # <<>>
              => Len(VideoData.additionTasks) \in 2..4

\* what the handler does instead: a list parsed from the completion is
\* emitted with the number of entries it was parsed with
VideoListsKeepTheirLength ==
    VideoPlanReturned =>
        /\ ParsedVideo.sub # <<>>
              => Len(VideoData.subtractionTasks) = Len(ParsedVideo.sub)
        /\ ParsedVideo.add # <<>>
              => Len(VideoData.additionTasks) = Len(ParsedVideo.add)

(***************************************************************************)
(* Properties of the video-editing fallback.                               *)
(***************************************************************************)
\* the result of a total failure: one component holding the fixed 3 + 3
\* tasks of the table for the language, and the fallback text
IsVideoFallback(out, language) ==
    /\ IsResult(out)
    /\ Len(out.val.ui_components) = 1
    /\ out.val.ui_components[1].type = "videoEditingTodo"
    /\ Len(out.val.ui_components[1].data.subtractionTasks) = 3
    /\ Len(out.val.ui_components[1].data.additionTasks) = 3
    /\ out.val.ui_components[1].data =
          (IF language = "zh" THEN FallbackVideoChinese ELSE FallbackVideoEnglish)
    /\ out.val.result =
          ExpectedTemplate(RESPONSE_TEMPLATES, "video_editing_fallback", language)

\* C22: when the completion call of the video-editing capability raises,
\* the emitted component is the fixed fallback with exactly 3 subtraction
\* and 3 addition tasks, from the Chinese table when the language
\* parameter is zh and from the English table for every other tag, and the
\* text is the video_editing_fallback template of that language; here for
\* get_video_editing_data of graph.py, the function call_model runs.
C22_VideoFallback ==
    (/\ h_pc = "returned" /\ h_handler = "get_video_editing_data"
     /\ h_env.c1.kind = "raise")
    => IsVideoFallback(h_out, h_language)

\* the same for VideoEditingHandler.process_request
VideoHandlerFallback ==
    (/\ h_pc = "returned" /\ h_handler = "video_editing"
     /\ h_env.c1.kind = "raise")
    => IsVideoFallback(h_out, h_language)

\* what get_video_editing_data returns instead: 2 + 2 English tasks
\* whatever the language, with the fallback text of the language
GraphVideoFallback ==
    (/\ h_pc = "returned" /\ h_handler = "get_video_editing_data"
     /\ h_env.c1.kind = "raise")
    => /\ IsResult(h_out)
       /\ h_out.val.ui_components[1].data = graph_fallback_video
       /\ Len(graph_fallback_video.subtractionTasks) = 2
       /\ Len(graph_fallback_video.additionTasks) = 2
       /\ h_out.val.result =
             graph_RESPONSE_TEMPLATES["video_editing_fallback"][h_language]

(***************************************************************************)
(* Properties of the weather condition mapping.                            *)
(***************************************************************************)
\* the categories in their order of precedence, and the words of each
CategoryOrder == <<"rain", "cloud", "clear", "snow">>

CategoryWords ==
    [rain |-> {KwRain, KwDrizzle}, cloud |-> {KwCloud},
     clear |-> {KwSun, KwClear}, snow |-> {KwSnow}]

\* the text holds a word of the category, letter case aside
Matches(condition_text, cat) ==
    \E w \in CategoryWords[cat] : contains(lower(condition_text), w)

\* the earliest category that matches, else the default
ExpectedCategory(condition_text) ==
    IF \E i \in 1..Len(CategoryOrder) : Matches(condition_text, CategoryOrder[i])
    THEN CategoryOrder[Min({i \in 1..Len(CategoryOrder) :
                                Matches(condition_text, CategoryOrder[i])})]
    ELSE "default"

\* icon, gradient and description of the data are those of the category
TripleOf(data, cat) ==
    /\ data.icon \in {graph_icons[cat], handler_icons[cat]}
    /\ data.gradient = gradients[cat]
    /\ data.description \in
          {graph_descriptions[cat]}
          \cup {weather_descriptions[cat][l] : l \in DOMAIN weather_descriptions[cat]}

\* the weather service answered with a document holding a condition text
ConditionFetched ==
    /\ h_pc = "returned"
    /\ h_env.api_key /\ h_env.http = "ok"
    /\ h_env.doc \in {WeatherDoc(c) : c \in ConditionTexts}

MapsToOneCategory(data) ==
    /\ TripleOf(data, ExpectedCategory(data.condition))
    /\ Cardinality({cat \in DOMAIN gradients : TripleOf(data, cat)}) = 1

GraphConditionCategory ==
    (ConditionFetched /\ h_handler = "get_weather_data")
    => /\ IsResult(h_out)
       /\ h_out.val.ui_components[1].data.condition =
             h_env.doc.v.current.v.condition.v.text.v
       /\ MapsToOneCategory(h_out.val.ui_components[1].data)

(***************************************************************************)
(* Properties of the substitution of empty video-editing lists.            *)
(***************************************************************************)
\* title, description and tags of emitted tasks, ids aside
TaskContents(objects) ==
    [i \in 1..Len(objects) |->
        VTask(objects[i].title, objects[i].description, objects[i].tags)]

HasCodePointAbove127(request) == \E i \in 1..Len(request) : request[i] > 127

\* the emitted list is the parsed one when that is not empty, else the
\* fixed list of the request's script
SubstitutedWhenEmpty(emitted, parsed, chinese, english) ==
    IF parsed # <<>> THEN TaskContents(emitted) = parsed
    ELSE /\ Len(emitted) = 3
         /\ TaskContents(emitted) =
               (IF HasCodePointAbove127(h_request) THEN chinese ELSE english)

\* C24: in the video-editing handler a task list that is empty after
\* parsing is replaced by a fixed 3-item list, each list independently of
\* the other; the Chinese list is chosen exactly when the original request
\* contains a code point above 127 and the English list otherwise,
\* regardless of the language parameter, and a non-empty parsed list is
\* never replaced.
C24_EmptyListSubstitution ==
    VideoPlanReturned =>
        /\ IsResult(h_out)
        /\ SubstitutedWhenEmpty(VideoData.subtractionTasks, ParsedVideo.sub,
                                ChineseSubtraction, EnglishSubtraction)
        /\ SubstitutedWhenEmpty(VideoData.additionTasks, ParsedVideo.add,
                                ChineseAddition, EnglishAddition)

\* a request whose only non-ASCII letter is Latin, language en: the parsed
\* subtraction list is kept and the empty addition list becomes the
\* Chinese one
C24_Witness ==
    /\ VideoPlanReturned
    /\ h_request = <<233>> /\ h_language = "en"
    /\ ParsedVideo.sub # <<>> /\ ParsedVideo.add = <<>>
    /\ TaskContents(VideoData.subtractionTasks) = ParsedVideo.sub
    /\ TaskContents(VideoData.additionTasks) = ChineseAddition

(***************************************************************************)
(* Properties of the line-oriented parser of video-editing completions.    *)
(***************************************************************************)
\* the stripped lines of the completion of the call
CompletionLines ==
    LET lines == split_lines(expand_docs(h_env.c1.content))
    IN [k \in 1..Len(lines) |-> strip(lines[k])]

\* the kinds of line the parser tells apart, the earlier kind winning
VideoTitleLine(line) == kw_in(line, "title") /\ chunk_in(line, ":")

SectionHeader(line, section) ==
    /\ ~VideoTitleLine(line)
    /\ kw_in(line, section) /\ (kw_in(line, "task") \/ chunk_in(line, "["))
    /\ section = "addition" => ~kw_in(line, "subtraction")

CollectibleLine(line) ==
    /\ ~VideoTitleLine(line)
    /\ ~SectionHeader(line, "subtraction") /\ ~SectionHeader(line, "addition")
    /\ line # <<>>
    /\ \/ Head(line) \in {"-", "*"}
       \/ Head(line) = "\"" /\ line[Len(line)] = "\""

\* the text of a bullet or quoted line without its markers
CollectedText(line) ==
    rstrip_chars(
        strip_chars(strip_chars(strip(lstrip_chars(line, {"-", "*"})), {"\""}),
                    {"'"}),
        {","})

\* the section active at line k: that of the last header above it
ActiveSection(lines, k) ==
    LET headers == {j \in 1..(k - 1) : SectionHeader(lines[j], "subtraction")
                                       \/ SectionHeader(lines[j], "addition")}
    IN IF headers = {} THEN "none"
       ELSE IF SectionHeader(lines[Max(headers)], "subtraction")
       THEN "subtraction" ELSE "addition"

\* the texts of the bullet and quoted lines of a section, in document order
RECURSIVE CollectedFrom(_, _, _)
CollectedFrom(lines, k, section) ==
    IF k > Len(lines) THEN <<>>
    ELSE (IF /\ CollectibleLine(lines[k])
             /\ ActiveSection(lines, k) = section
             /\ CollectedText(lines[k]) # <<>>
          THEN <<CollectedText(lines[k])>> ELSE <<>>)
         \o CollectedFrom(lines, k + 1, section)

\* the text after the colon of a title line, without its quotes
TitlePart(line) ==
    strip_chars(strip_chars(strip(after_colon(line)), {"\""}), {"'"})

\* the title of the last title line that names one, else the default
TitleFromLines(lines) ==
    LET named == {k \in 1..Len(lines) :
                    VideoTitleLine(lines[k]) /\ TitlePart(lines[k]) # <<>>}
    IN IF named = {} THEN DefaultVideoTitle ELSE TitlePart(lines[Max(named)])

TaskTitles(tasks) == [i \in 1..Len(tasks) |-> tasks[i].title]

\* json.loads accepted the fence-stripped completion
JsonParsed ==
    /\ h_env.c1.kind = "str"
    /\ ~json_loads(strip_code_fence(h_env.c1.content)).raised

\* the number of entries the parsed document lists under a key
DocumentEntries(key) ==
    LET doc == json_loads(strip_code_fence(h_env.c1.content)).val
    IN IF doc.t = "dict" /\ key \in DOMAIN doc.v /\ doc.v[key].t = "list"
       THEN Len(doc.v[key].v) ELSE 0

\* the line parser gave the lists: each holds the bullet and quoted lines
\* of its section in document order, and none that precede every header
LineParserCollected ==
    /\ ParsedVideo.title = TitleFromLines(CompletionLines)
    /\ TaskTitles(ParsedVideo.sub) = CollectedFrom(CompletionLines, 1, "subtraction")
    /\ TaskTitles(ParsedVideo.add) = CollectedFrom(CompletionLines, 1, "addition")

\* C25: in the video-editing handler the line-oriented parser runs only
\* when JSON parsing of the fence-stripped completion fails; it then takes
\* the title from a "title:" line, switches the active section on a
\* subtraction or addition header line, and collects every subsequent
\* bullet or quoted line into the active section in document order,
\* discarding bullet lines that precede any header.
C25_LineParser ==
    (VideoPlanReturned /\ h_env.c1.kind = "str") =>
        IF JsonParsed
        THEN /\ Len(ParsedVideo.sub) <= DocumentEntries("subtractionTasks")
             /\ Len(ParsedVideo.add) <= DocumentEntries("additionTasks")
        ELSE LineParserCollected

\* the part about a completion json.loads rejects
LineParserAfterDecodeError ==
    (VideoPlanReturned /\ h_env.c1.kind = "str" /\ ~JsonParsed)
    => LineParserCollected

\* what the handler does for a document json.loads accepts and whose task
\* list cannot be iterated: the line parser reads the document's own text
LineParserAfterTypeError ==
    (VideoPlanReturned /\ h_env.c1 = CompletionText(<<"doc_null_additions">>))
    => /\ JsonParsed
       /\ DocumentEntries("subtractionTasks") = 1
       /\ TaskTitles(ParsedVideo.sub) = <<<<"Cut intro">>, <<"Cut intro">>>>

(***************************************************************************)
(* Properties of the service calls of one process_request.                 *)
(***************************************************************************)
Count(calls, service) == Cardinality({i \in 1..Len(calls) : calls[i] = service})

PathStates == {"start", "ready", "tools", "done"}

PathSteps ==
    {<<"start", "ready">>, <<"ready", "done">>, <<"ready", "tools">>,
     <<"tools", "done">>}

\* the capability function of tool call i can run: the name is known and
\* the argument it reads is there
Runnable(i) ==
    /\ response.tool_calls[i].name \in KnownTools
    /\ tool_argument[response.tool_calls[i].name]
          \in DOMAIN response.tool_calls[i].args

Executions(i) == {a \in 1..Len(executed) : executed[a].index = i}

\* the model is invoked once and every invocation it returned is executed
\* once, none twice
InvokedAndExecutedOnce ==
    /\ model_calls <= 1
    /\ pc \in {"tools", "done"} => model_calls = 1
    /\ pc = "done" /\ Responded =>
          \A i \in 1..NumCalls :
              Cardinality(Executions(i)) = IF Runnable(i) THEN 1 ELSE 0

\* C27: each request follows the linear path START, DETECT_LANGUAGE,
\* INVOKE_MODEL_WITH_TOOLS, then DONE or EXECUTE_EACH_TOOL and DONE: the
\* tool-enabled model is invoked exactly once per request, tool results are
\* never fed back to the model, each returned tool invocation is executed
\* exactly once, and the request reaches DONE whenever every external call
\* returns or fails (no request ends anywhere but in DONE).
C27_LinearPath ==
    /\ pc \in PathStates
    /\ InvokedAndExecutedOnce

\* the same for the requests whose model client could be built
LinearPathOnceClientBuilt ==
    pc # "raised" => (pc \in PathStates /\ InvokedAndExecutedOnce)

\* the steps of a request are those of the path, in its order
PathOrder ==
    [][pc' # pc /\ pc' # "raised" => <<pc, pc'>> \in PathSteps]_vars

\* every step past the model client moves along the path or to the next
\* tool invocation, of which there are finitely many: no step repeats
Progress ==
    [][(pc = "ready" \/ pc = "tools") =>
          (<<pc, pc'>> \in PathSteps
           \/ (pc' = pc /\ tc' = tc + 1 /\ tc' <= Len(response.tool_calls)))]_vars

(***************************************************************************)
(* The invariant of the registry (SpecRegistry).                           *)
(***************************************************************************)
\* C28: after any sequence of register, get, list and unregister calls
\* from the default registry (weather, todo, video_editing registered,
\* nothing cached), every id with a cached instance is a registered id and
\* its cached instance was constructed from the handler class registered
\* for the id now.
C28_RegistryInvariant ==
    \A id \in DOMAIN instances :
        /\ id \in DOMAIN handlers
        /\ instances[id].cls = handlers[id]

\* weather was fetched, registered again with another class and fetched
\* again: the cached instance is one of the new class
C28_Witness ==
    /\ Len(reg_log) = 3
    /\ IsCall(1, "get", "weather") /\ reg_log[1].instance.cls = "WeatherHandler"
    /\ IsCall(2, "register", "weather") /\ reg_log[2].handler_class = "ChartHandler"
    /\ IsCall(3, "get", "weather")
    /\ "weather" \in DOMAIN instances
    /\ instances["weather"].cls = "ChartHandler"
    /\ handlers["weather"] = "ChartHandler"

(***************************************************************************)
(* Properties of the acknowledgements of one turn.                         *)
(***************************************************************************)
\* the positions in the returned list of the acknowledgements of tool call i
Acknowledgements(i) ==
    {j \in 1..Len(returned) :
        /\ returned[j].type = "tool"
        /\ returned[j].tool_call_id = response.tool_calls[i].id}

ErrorAcknowledgement(i, e) ==
    ToolMessage(<<"Error executing ", response.tool_calls[i].name, ": ", e>>,
                response.tool_calls[i].id)

ToolTurnReturned == pc = "done" /\ Responded /\ NumCalls > 0

\* C29: for every tool invocation returned by the model, the message list
\* call_model returns holds exactly one tool acknowledgement carrying that
\* invocation's id, on every path: handler success, unknown tool name, an
\* exception raised by the capability function, and an exception raised
\* while emitting one of its UI components.
C29_OneAcknowledgement ==
    ToolTurnReturned =>
        \A i \in 1..NumCalls : Cardinality(Acknowledgements(i)) = 1

\* what call_model returns: one acknowledgement, and a second one, the
\* error of the UI emission, when emitting a component raised
OneOrTwoAcknowledgements ==
    ToolTurnReturned =>
        \A i \in 1..NumCalls :
            /\ Cardinality(Acknowledgements(i)) \in 1..2
            /\ Cardinality(Acknowledgements(i)) = 2 =>
                  returned[Max(Acknowledgements(i))] =
                      ErrorAcknowledgement(i, PushError)

(***************************************************************************)
(* Failure isolation between the tool invocations of one turn.             *)
(***************************************************************************)
\* tool call i names a known tool without the argument the tool reads
MissingArgument(i) ==
    /\ response.tool_calls[i].name \in KnownTools
    /\ ~Runnable(i)

\* emitting a UI component of tool call i raised
EmissionFailed(i) ==
    \E a \in Executions(i) : executed[a].push_fail # 0

\* executing tool call i raised, with the text of the exception
FailedWith(i, e) ==
    \/ MissingArgument(i)
       /\ e = KeyErrorText[tool_argument[response.tool_calls[i].name]]
    \/ EmissionFailed(i) /\ e = PushError

\* C30: an exception raised while executing invocation ti (a missing
\* argument key, the capability function raising, the UI emission
\* raising) becomes an acknowledgement "Error executing {name}: ..." for
\* ti, does not reach the outer apology path, and every later invocation tj
\* (j > i) is still executed and acknowledged, with the model response
\* still first in the returned list.
C30_FailureIsolation ==
    (pc = "done" /\ Responded /\ NumCalls > 0) =>
        \A i \in 1..NumCalls : \A e \in {PushError} \cup {KeyErrorText[k] : k \in DOMAIN KeyErrorText} :
            FailedWith(i, e) =>
                /\ \E m \in Acknowledgements(i) :
                      returned[m] = ErrorAcknowledgement(i, e)
                /\ returned[1] = response
                /\ \A m \in 1..Len(returned) :
                      returned[m].content # <<ApologyPrefix, e>>
                /\ \A j \in (i + 1)..NumCalls :
                      /\ Acknowledgements(j) # {}
                      /\ \A m \in Acknowledgements(j) :
                            m > Max(Acknowledgements(i))
                      /\ Runnable(j) => Cardinality(Executions(j)) = 1

\* the first invocation lacks its argument, the second runs and emits its
\* component
C30_Witness ==
    /\ pc = "done" /\ Responded /\ NumCalls = 2
    /\ MissingArgument(1)
    /\ returned[2] = ErrorAcknowledgement(1, "'city'")
    /\ Runnable(2) /\ Cardinality(Executions(2)) = 1 /\ ~EmissionFailed(2)
    /\ Len(returned) = 4
    /\ returned[3].type = "tool" /\ returned[4].type = "ai"

\* the same after a failed UI emission of the first invocation
FailedEmissionIsolated ==
    /\ pc = "done" /\ Responded /\ NumCalls = 2
    /\ EmissionFailed(1) /\ Runnable(2) /\ ~EmissionFailed(2)
    /\ Len(returned) = 5
    /\ returned[3] = ErrorAcknowledgement(1, PushError)
    /\ returned[4].type = "tool" /\ returned[5].type = "ai"

====
